---- MODULE Spec2Model ----
(***************************************************************************)
(* License ledger of the Sampled marketplace (contracts/src/license_nft.rs) *)
(* as a state machine: one action per entry point, each taken atomically    *)
(* (a call either commits all its writes or reverts with none).             *)
(***************************************************************************)
EXTENDS Integers, Sequences, FiniteSets, TLC

\* ------------------------------------------------------------------
\* Bounds and input sets
\* ------------------------------------------------------------------
MaxLicenses == 2
MaxTransfers == 2
InitBalance == 1300

Address == {"a1", "a2", "a3"}
InitAdmins == {"a1"}
MarketplaceInputs == {"a2"}
BuyerInputs == {"a1", "a2"}
ToInputs == {"a2", "a3"}
CreatorInputs == {"a3"}
SampleId == {7, 9}
LicenseTypeInputs == {0, 3, 4}
PurchasePrices == {1000}
BlockTimes == {100}
SalePrices == {1000}
AttachedValues == {1119, 1120}

\* Inputs of SpecPay: one license at a time, many prices and payments
PayMaxLicenses == 1
PayMaxTransfers == 1
PaySampleId == {7}
PayLicenseTypeInputs == {0, 3}
PayBuyerInputs == {"a1", "a2"}
PayToInputs == {"a3"}
PaySalePrices == {0, 9, 55, 1000}
PayAttachedValues == {0, 8, 9, 60, 61, 1119, 1120}

\* Inputs of SpecDup: one sample, two license types, three licenses
DupMaxLicenses == 3
DupMaxTransfers == 2
DupSampleId == {7}
DupLicenseTypeInputs == {0, 1}

\* The largest amount the model's U512 holds: it stands for 2^512 - 1.
U512Max == 12000

\* Inputs of SpecWide: sale prices up to the first one whose royalty product
\* leaves the range of U512
WideMaxLicenses == 1
WideMaxTransfers == 2

\* Inputs of SpecFrame: licenses of every type and of two different creators
FrameMaxLicenses == 2
FrameMaxTransfers == 2
FrameCreatorInputs == {"a2", "a3"}
FrameLicenseTypeInputs == {0, 1, 2, 3}
FrameBuyerInputs == {"a1"}

\* Inputs of SpecFee: every sale price from 0 to FeeMaxPrice, attached with
\* the exact total or with a surplus of two units
FeeMaxLicenses == 1
FeeMaxTransfers == 1
FeeMaxPrice == 55
FeeBuyerInputs == {"a2"}
FeeSalePrices == 0..FeeMaxPrice
FeeAttachedValues(p) == {p + (p \div 10) + (p \div 50), p + (p \div 10) + (p \div 50) + 2}

\* Inputs of SpecCatalog: the catalog is the ledger's marketplace, two samples
\* of one seller, bought outright or licensed as Personal or Exclusive
CatMaxPurchases == 2
CatalogSampleId == {1, 2}
CatSellerInputs == {"a3"}
CatBuyerInputs == {"a2", "a3"}
CatPrices == {0, 5}
CatLicenseTypeInputs == {0, 3}
CatAttachedValues == {10, 200}

\* Inputs of SpecPurchase: one sample whose licenses are bought at the default
\* and at custom multipliers, with the ledger's marketplace set to the catalog
\* or to an account
PurMaxPurchases == 2
PurSampleId == {1}
PurPrices == {5}
PurBuyerInputs == {"a2", "a3"}
PurLicenseTypeInputs == {0, 1, 3}
PurMultipliers == {<<150, 300, 600, 1000>>, <<0, 300, 600, 1000>>}
PurAttachedValues == {5, 7, 12, 50, 100}

\* Inputs of SpecSelf: licenses of one sample, transferred to their owner or
\* to an account that holds none
SelfMaxLicenses == 2
SelfMaxTransfers == 2
SelfToInputs == {"a2", "a3"}

\* Inputs of SpecReentry: transfers to the owner, to the admin and to a third
\* account, with the admin and the owner as creators, nested up to ReMaxDepth
ReMaxLicenses == 1
ReMaxTransfers == 2
ReMaxDepth == 2
ReBuyerInputs == {"a2"}
ReCreatorInputs == {"a1", "a2"}
ReToInputs == {"a1", "a2", "a3"}
ReLicenseTypeInputs == {0}
ReAttachedValues == {1120}

\* Inputs of SpecAdmin: two candidate marketplace addresses
AdminMaxLicenses == 2
AdminMaxTransfers == 1
AdminMarketplaceInputs == {"a2", "a3"}

None == "None"
Self == "ledger"
Overflow == -1
U8Keys == 0..4

\* ------------------------------------------------------------------
\* license_types.rs
\* ------------------------------------------------------------------
CREATOR_ROYALTY_PERCENT == 10
RESALE_PLATFORM_FEE_PERCENT == 2

WideSalePrices == {1000, (U512Max \div CREATOR_ROYALTY_PERCENT) + 1}
WideAttachedValues == {1120, InitBalance}

from_u8(value) ==
    CASE value = 0 -> "Personal"
      [] value = 1 -> "Commercial"
      [] value = 2 -> "Broadcast"
      [] value = 3 -> "Exclusive"
      [] OTHER -> None

to_u8(lt) ==
    CASE lt = "Personal" -> 0
      [] lt = "Commercial" -> 1
      [] lt = "Broadcast" -> 2
      [] lt = "Exclusive" -> 3

\* ------------------------------------------------------------------
\* State
\* ------------------------------------------------------------------
VARIABLES
    admin,                    \* Var<Address>
    marketplace,              \* Var<Address>, None while unset
    licenses,                 \* Mapping<u64, LicenseMetadata>: ids 1..license_count
    license_count,            \* Var<u64>
    sample_license_at,        \* per sample: slots 0..count-1 as a sequence
    sample_exclusive_holder,  \* Mapping<u64, Address>
    sample_has_exclusive,     \* Mapping<u64, bool>
    owner_license_at,         \* per owner: slots 0..count-1 as a sequence, 0 = removed
    user_sample_license,      \* Mapping<(Address, u64, u8), u64>
    user_has_license_type,    \* Mapping<(Address, u64, u8), bool>
    creator_royalty_earnings, \* Mapping<Address, U512>
    creator_total_royalties,  \* Mapping<Address, U512>
    balance,                  \* token balance of every account and of the contract
    catalog,                  \* storage of the SampledMarketplace contract
    events,                   \* events the ledger emitted in the latest call, in order
    calls,                    \* SpecReentry only: the ledger calls that are suspended
                              \* at a token transfer, the storage to go back to
                              \* if one of them reverts, what withdraw_royalties
                              \* has paid each account, and the transfer of each
                              \* license that finished last
    result                    \* the latest call: entry point, the sample (mint) or
                              \* license (transfer) it named, outcome, payouts,
                              \* storage writes and token transfers in the
                              \* order of the statements that made them

ledger == <<admin, marketplace, licenses, license_count, sample_license_at,
            sample_exclusive_holder, sample_has_exclusive, owner_license_at,
            user_sample_license, user_has_license_type,
            creator_royalty_earnings, creator_total_royalties, balance>>

vars == <<admin, marketplace, licenses, license_count, sample_license_at,
          sample_exclusive_holder, sample_has_exclusive, owner_license_at,
          user_sample_license, user_has_license_type,
          creator_royalty_earnings, creator_total_royalties, balance,
          catalog, events, calls, result>>

Keys == Address \X SampleId \X U8Keys

\* SampledMarketplace::init
CatalogInit(catalog_admin) ==
    [admin |-> catalog_admin,
     sample_count |-> 0,
     total_volume |-> 0,
     platform_fee_collected |-> 0,
     samples |-> << >>,
     user_uploaded_at |-> [a \in Address |-> << >>],
     user_purchased_at |-> [a \in Address |-> << >>],
     user_earnings |-> [a \in Address |-> 0],
     user_total_earned |-> [a \in Address |-> 0],
     user_total_spent |-> [a \in Address |-> 0],
     user_purchase_records |-> << >>,
     license_nft_contract |-> None,
     sample_license_pricing |-> << >>,
     events |-> << >>]

\* Both contracts after init, with the ledger's mappings over the sample ids
\* and the purses that the specification uses.
ContractsInit(samples, purses) ==
    /\ admin \in InitAdmins
    /\ marketplace = None
    /\ licenses = << >>
    /\ license_count = 0
    /\ sample_license_at = [s \in samples |-> << >>]
    /\ sample_exclusive_holder = [s \in samples |-> None]
    /\ sample_has_exclusive = [s \in samples |-> FALSE]
    /\ owner_license_at = [a \in Address |-> << >>]
    /\ user_sample_license = [k \in Address \X samples \X U8Keys |-> 0]
    /\ user_has_license_type = [k \in Address \X samples \X U8Keys |-> FALSE]
    /\ creator_royalty_earnings = [a \in Address |-> 0]
    /\ creator_total_royalties = [a \in Address |-> 0]
    /\ balance = [a \in purses |-> IF a \in Address THEN InitBalance ELSE 0]
    /\ \E catalog_admin \in InitAdmins : catalog = CatalogInit(catalog_admin)
    /\ events = << >>
    /\ calls = [stack |-> << >>, snapshot |-> << >>,
                withdrawn |-> [a \in Address |-> 0], finished |-> << >>]
    /\ result = [op |-> "init", target |-> 0, err |-> "Ok", ret |-> 0, paid |-> << >>,
                 effects |-> << >>]

Init == ContractsInit(SampleId, Address \cup {Self})

\* ------------------------------------------------------------------
\* View functions
\* ------------------------------------------------------------------
get_license(license_id) ==
    IF license_id \in DOMAIN licenses THEN licenses[license_id] ELSE None

get_owner(license_id) ==
    IF license_id \in DOMAIN licenses THEN licenses[license_id].current_owner ELSE None

get_license_count == license_count

RECURSIVE OwnerScan(_, _, _, _)
OwnerScan(lics, slots, owner, i) ==
    IF i > Len(slots) THEN << >>
    ELSE LET id == slots[i]
             rest == OwnerScan(lics, slots, owner, i + 1)
         IN IF id > 0 /\ id \in DOMAIN lics /\ lics[id].current_owner = owner
            THEN <<id>> \o rest
            ELSE rest

get_licenses_by_owner(owner) ==
    OwnerScan(licenses, owner_license_at[owner], owner, 1)

\* get_licenses_by_sample that leaves out the licenses that changed hands.
get_licenses_by_sample_SkipsTransferred(sample_id) ==
    SelectSeq(sample_license_at[sample_id],
              LAMBDA id : licenses[id].transfer_count = 0)

get_licenses_by_sample(sample_id) == sample_license_at[sample_id]

get_sample_license_count(sample_id) == Len(sample_license_at[sample_id])

has_license(owner, sample_id, license_type) ==
    user_has_license_type[<<owner, sample_id, license_type>>]

\* The Option<u64> it returns is a sequence of at most one license id.
get_user_license(owner, sample_id, license_type) ==
    LET license_id == user_sample_license[<<owner, sample_id, license_type>>]
    IN IF license_id > 0 THEN <<license_id>> ELSE << >>

is_exclusively_licensed(sample_id) == sample_has_exclusive[sample_id]

get_exclusive_holder(sample_id) ==
    IF sample_has_exclusive[sample_id] THEN sample_exclusive_holder[sample_id] ELSE None

\* SampleLicenseInfo::default()
SampleLicenseInfo ==
    [total_licenses |-> 0, personal_count |-> 0, commercial_count |-> 0,
     broadcast_count |-> 0, has_exclusive |-> FALSE, exclusive_holder |-> None]

\* CountLicense that leaves out the licenses that changed hands.
CountLicense_SkipsTransferred(info, license) ==
    IF license.transfer_count > 0 THEN info
    ELSE CASE license.license_type = "Personal" ->
                [info EXCEPT !.personal_count = @ + 1]
           [] license.license_type = "Commercial" ->
                [info EXCEPT !.commercial_count = @ + 1]
           [] license.license_type = "Broadcast" ->
                [info EXCEPT !.broadcast_count = @ + 1]
           [] license.license_type = "Exclusive" ->
                [info EXCEPT !.has_exclusive = TRUE,
                             !.exclusive_holder = license.current_owner]

\* The match on license.license_type in the loop of get_sample_license_info.
CountLicense(info, license) ==
    CASE license.license_type = "Personal" ->
            [info EXCEPT !.personal_count = @ + 1]
      [] license.license_type = "Commercial" ->
            [info EXCEPT !.commercial_count = @ + 1]
      [] license.license_type = "Broadcast" ->
            [info EXCEPT !.broadcast_count = @ + 1]
      [] license.license_type = "Exclusive" ->
            [info EXCEPT !.has_exclusive = TRUE,
                         !.exclusive_holder = license.current_owner]

RECURSIVE InfoLoop(_, _, _)
InfoLoop(ids, i, info) ==
    IF i > Len(ids) THEN info
    ELSE IF ids[i] \in DOMAIN licenses
         THEN InfoLoop(ids, i + 1, CountLicense(info, licenses[ids[i]]))
         ELSE InfoLoop(ids, i + 1, info)

get_sample_license_info(sample_id) ==
    LET ids == get_licenses_by_sample(sample_id)
    IN InfoLoop(ids, 1, [SampleLicenseInfo EXCEPT !.total_licenses = Len(ids)])

get_royalty_earnings(creator) == creator_royalty_earnings[creator]

get_total_royalties(creator) == creator_total_royalties[creator]

\* ------------------------------------------------------------------
\* Effects of a call, listed in statement order
\* ------------------------------------------------------------------
\* A storage write: the field, the account its key names (None when the key
\* is an id) and the value written.
StorageSet(what, who, value) ==
    [kind |-> "set", what |-> what, who |-> who, value |-> value]

\* env().transfer_tokens(to, amount).
TokenTransfer(to, amount) ==
    [kind |-> "pay", what |-> "transfer_tokens", who |-> to, value |-> amount]

\* ------------------------------------------------------------------
\* Reverting: the call ends with an error and none of its writes
\* ------------------------------------------------------------------
Revert(op, target, err) ==
    /\ result' = [op |-> op, target |-> target, err |-> err, ret |-> 0,
                  paid |-> << >>, effects |-> << >>]
    /\ events' = << >>
    /\ UNCHANGED <<ledger, catalog>>

\* ------------------------------------------------------------------
\* set_marketplace
\* ------------------------------------------------------------------
\* set_marketplace without the admin check.
set_marketplace_NoAdminCheck(caller, new_marketplace) ==
    /\ marketplace' = new_marketplace
    /\ result' = [op |-> "set_marketplace", target |-> 0, err |-> "Ok",
                  ret |-> 0, paid |-> << >>,
                  effects |-> <<StorageSet("marketplace", None, new_marketplace)>>]
    /\ UNCHANGED <<catalog, admin, licenses, license_count, sample_license_at,
                   sample_exclusive_holder, sample_has_exclusive,
                   owner_license_at, user_sample_license,
                   user_has_license_type, creator_royalty_earnings,
                   creator_total_royalties, balance>>
    /\ events' = << >>

set_marketplace(caller, new_marketplace) ==
    IF caller # admin
    THEN Revert("set_marketplace", 0, "Unauthorized")
    ELSE /\ marketplace' = new_marketplace
         /\ result' = [op |-> "set_marketplace", target |-> 0, err |-> "Ok",
                       ret |-> 0, paid |-> << >>,
                       effects |-> <<StorageSet("marketplace", None, new_marketplace)>>]
         /\ UNCHANGED <<catalog, admin, licenses, license_count, sample_license_at,
                        sample_exclusive_holder, sample_has_exclusive,
                        owner_license_at, user_sample_license,
                        user_has_license_type, creator_royalty_earnings,
                        creator_total_royalties, balance>>
         /\ events' = << >>

\* ------------------------------------------------------------------
\* mint_license
\* ------------------------------------------------------------------
\* MintError without the caller check.
MintError_NoCallerCheck(caller, sample_id, license_type, buyer) ==
    IF marketplace = None THEN "LicenseContractNotSet"
    ELSE IF from_u8(license_type) = None THEN "InvalidLicenseType"
    ELSE IF sample_has_exclusive[sample_id] THEN "SampleExclusivelyLicensed"
    ELSE IF user_has_license_type[<<buyer, sample_id, license_type>>]
         THEN "AlreadyHasLicenseType"
    ELSE "Ok"

\* MintError that looks at exclusivity before it decodes the license type.
MintError_ExclusiveBeforeType(caller, sample_id, license_type, buyer) ==
    IF marketplace = None THEN "LicenseContractNotSet"
    ELSE IF caller # marketplace THEN "Unauthorized"
    ELSE IF sample_has_exclusive[sample_id] THEN "SampleExclusivelyLicensed"
    ELSE IF from_u8(license_type) = None THEN "InvalidLicenseType"
    ELSE IF user_has_license_type[<<buyer, sample_id, license_type>>]
         THEN "AlreadyHasLicenseType"
    ELSE "Ok"

\* MintError without the exclusivity check.
MintError_NoExclusiveCheck(caller, sample_id, license_type, buyer) ==
    IF marketplace = None THEN "LicenseContractNotSet"
    ELSE IF caller # marketplace THEN "Unauthorized"
    ELSE IF from_u8(license_type) = None THEN "InvalidLicenseType"
    ELSE IF user_has_license_type[<<buyer, sample_id, license_type>>]
         THEN "AlreadyHasLicenseType"
    ELSE "Ok"

\* The precondition checks of mint_license in source order; "Ok" when all pass.
MintError(caller, sample_id, license_type, buyer) ==
    IF marketplace = None THEN "LicenseContractNotSet"
    ELSE IF caller # marketplace THEN "Unauthorized"
    ELSE IF from_u8(license_type) = None THEN "InvalidLicenseType"
    ELSE IF sample_has_exclusive[sample_id] THEN "SampleExclusivelyLicensed"
    ELSE IF user_has_license_type[<<buyer, sample_id, license_type>>]
         THEN "AlreadyHasLicenseType"
    ELSE "Ok"

\* The id after one that was free already.
next_license_id_Skips(count) == count + 2

\* The id of the next license: the current license_count plus one.
next_license_id(count) == count + 1

\* The storage writes of a mint_license call whose checks all passed.
MintEffects(license, exclusive) ==
    LET buyer == license.current_owner IN
    << StorageSet("license_count", None, license.license_id),
       StorageSet("licenses", None, license),
       StorageSet("sample_license_at", None, license.license_id),
       StorageSet("owner_license_at", buyer, license.license_id),
       StorageSet("user_sample_license", buyer, license.license_id),
       StorageSet("user_has_license_type", buyer, TRUE) >>
    \o (IF exclusive
        THEN << StorageSet("sample_has_exclusive", None, TRUE),
                StorageSet("sample_exclusive_holder", None, buyer) >>
        ELSE << >>)

\* MintCommit that sets the exclusive flag of the sample and records no holder.
MintCommit_FlagWithoutHolder(sample_id, license_type, buyer, original_creator, purchase_price, timestamp) ==
      LET lt == from_u8(license_type)
          license_id == next_license_id(license_count)
          license == [license_id |-> license_id,
                      sample_id |-> sample_id,
                      license_type |-> lt,
                      original_creator |-> original_creator,
                      current_owner |-> buyer,
                      purchase_price |-> purchase_price,
                      purchase_timestamp |-> timestamp,
                      is_active |-> TRUE,
                      transfer_count |-> 0]
          key == <<buyer, sample_id, license_type>>
          exclusive == to_u8(lt) = to_u8("Exclusive")
          activated == [kind |-> "ExclusiveLicenseActivated",
                        sample_id |-> sample_id,
                        license_id |-> license_id,
                        holder |-> buyer,
                        timestamp |-> timestamp]
          minted == [kind |-> "LicenseMinted",
                     license_id |-> license_id,
                     sample_id |-> sample_id,
                     license_type |-> license_type,
                     buyer |-> buyer,
                     creator |-> original_creator,
                     price |-> purchase_price,
                     timestamp |-> timestamp]
      IN
      /\ license_count' = license_id
      /\ licenses' = Append(licenses, license)
      /\ sample_license_at' =
            [sample_license_at EXCEPT ![sample_id] = Append(@, license_id)]
      /\ owner_license_at' =
            [owner_license_at EXCEPT ![buyer] = Append(@, license_id)]
      /\ user_sample_license' = [user_sample_license EXCEPT ![key] = license_id]
      /\ user_has_license_type' = [user_has_license_type EXCEPT ![key] = TRUE]
      /\ sample_has_exclusive' =
            IF exclusive THEN [sample_has_exclusive EXCEPT ![sample_id] = TRUE]
            ELSE sample_has_exclusive
      /\ sample_exclusive_holder' = sample_exclusive_holder
      /\ events' = IF exclusive THEN <<activated, minted>> ELSE <<minted>>
      /\ result' = [op |-> "mint_license", target |-> sample_id, err |-> "Ok",
                    ret |-> license_id,
                    paid |-> << >>,
                    effects |-> MintEffects(license, exclusive)]
      /\ UNCHANGED <<admin, marketplace, creator_royalty_earnings,
                     creator_total_royalties>>

\* The writes and events of a mint_license call whose checks all passed.
MintCommit(sample_id, license_type, buyer, original_creator, purchase_price, timestamp) ==
      LET lt == from_u8(license_type)
          license_id == next_license_id(license_count)
          license == [license_id |-> license_id,
                      sample_id |-> sample_id,
                      license_type |-> lt,
                      original_creator |-> original_creator,
                      current_owner |-> buyer,
                      purchase_price |-> purchase_price,
                      purchase_timestamp |-> timestamp,
                      is_active |-> TRUE,
                      transfer_count |-> 0]
          key == <<buyer, sample_id, license_type>>
          exclusive == to_u8(lt) = to_u8("Exclusive")
          activated == [kind |-> "ExclusiveLicenseActivated",
                        sample_id |-> sample_id,
                        license_id |-> license_id,
                        holder |-> buyer,
                        timestamp |-> timestamp]
          minted == [kind |-> "LicenseMinted",
                     license_id |-> license_id,
                     sample_id |-> sample_id,
                     license_type |-> license_type,
                     buyer |-> buyer,
                     creator |-> original_creator,
                     price |-> purchase_price,
                     timestamp |-> timestamp]
      IN
      /\ license_count' = license_id
      /\ licenses' = Append(licenses, license)
      /\ sample_license_at' =
            [sample_license_at EXCEPT ![sample_id] = Append(@, license_id)]
      /\ owner_license_at' =
            [owner_license_at EXCEPT ![buyer] = Append(@, license_id)]
      /\ user_sample_license' = [user_sample_license EXCEPT ![key] = license_id]
      /\ user_has_license_type' = [user_has_license_type EXCEPT ![key] = TRUE]
      /\ sample_has_exclusive' =
            IF exclusive THEN [sample_has_exclusive EXCEPT ![sample_id] = TRUE]
            ELSE sample_has_exclusive
      /\ sample_exclusive_holder' =
            IF exclusive THEN [sample_exclusive_holder EXCEPT ![sample_id] = buyer]
            ELSE sample_exclusive_holder
      /\ events' = IF exclusive THEN <<activated, minted>> ELSE <<minted>>
      /\ result' = [op |-> "mint_license", target |-> sample_id, err |-> "Ok",
                    ret |-> license_id,
                    paid |-> << >>,
                    effects |-> MintEffects(license, exclusive)]
      /\ UNCHANGED <<admin, marketplace, creator_royalty_earnings,
                     creator_total_royalties>>

\* mint_license that allocates the id before the duplicate check and returns
\* the error without undoing it.
mint_license_IdBeforeCheck(caller, sample_id, license_type, buyer, original_creator, purchase_price, timestamp) ==
    LET err == MintError(caller, sample_id, license_type, buyer) IN
    IF err = "AlreadyHasLicenseType"
    THEN /\ license_count' = license_count + 1
         /\ result' = [op |-> "mint_license", target |-> sample_id, err |-> err,
                       ret |-> 0, paid |-> << >>,
                       effects |-> <<StorageSet("license_count", None, license_count + 1)>>]
         /\ events' = << >>
         /\ UNCHANGED <<catalog, admin, marketplace, licenses, sample_license_at,
                        sample_exclusive_holder, sample_has_exclusive,
                        owner_license_at, user_sample_license,
                        user_has_license_type, creator_royalty_earnings,
                        creator_total_royalties, balance>>
    ELSE IF err # "Ok" THEN Revert("mint_license", sample_id, err)
    ELSE /\ MintCommit(sample_id, license_type, buyer, original_creator,
                       purchase_price, timestamp)
         /\ UNCHANGED <<balance, catalog>>

mint_license(caller, sample_id, license_type, buyer, original_creator, purchase_price, timestamp) ==
    LET err == MintError(caller, sample_id, license_type, buyer) IN
    IF err # "Ok" THEN Revert("mint_license", sample_id, err)
    ELSE /\ MintCommit(sample_id, license_type, buyer, original_creator,
                       purchase_price, timestamp)
         /\ UNCHANGED <<balance, catalog>>

\* ------------------------------------------------------------------
\* transfer_license
\* ------------------------------------------------------------------
\* U512 arithmetic aborts the call when a result leaves the range of the type;
\* Overflow stands for the abort and spreads through every later operation.
U512Checked_Wrapping(x) == x % (U512Max + 1)

U512Checked(x) == IF x > U512Max THEN Overflow ELSE x

U512Mul(a, b) ==
    IF a = Overflow \/ b = Overflow THEN Overflow ELSE U512Checked(a * b)

U512Add(a, b) ==
    IF a = Overflow \/ b = Overflow THEN Overflow ELSE U512Checked(a + b)

U512Div(a, b) == IF a = Overflow THEN Overflow ELSE a \div b

\* creator_royalty with a minimum royalty of one unit.
creator_royalty_MinimumOne(sale_price) ==
    LET r == U512Div(U512Mul(sale_price, CREATOR_ROYALTY_PERCENT), 100)
    IN IF r = 0 THEN 1 ELSE r

\* creator_royalty that rounds up.
creator_royalty_RoundedUp(sale_price) ==
    U512Div(U512Add(U512Mul(sale_price, CREATOR_ROYALTY_PERCENT), 99), 100)

creator_royalty(sale_price) ==
    U512Div(U512Mul(sale_price, CREATOR_ROYALTY_PERCENT), 100)

\* platform_fee rounded up instead of down.
platform_fee_RoundedUp(sale_price) ==
    ((sale_price * RESALE_PLATFORM_FEE_PERCENT) + 99) \div 100

platform_fee(sale_price) ==
    U512Div(U512Mul(sale_price, RESALE_PLATFORM_FEE_PERCENT), 100)

\* total_required that leaves the creator royalty out.
total_required_NoRoyalty(sale_price) == sale_price + platform_fee(sale_price)

\* total_required that leaves the platform fee out.
total_required_NoFee(sale_price) == sale_price + creator_royalty(sale_price)

total_required(sale_price) ==
    U512Add(U512Add(sale_price, creator_royalty(sale_price)), platform_fee(sale_price))

\* TransferError that verifies the payment before it looks at the license type.
TransferError_PaymentBeforeExclusive(caller, license_id, sale_price, attached_value) ==
    LET license == get_license(license_id) IN
    IF license_id \notin DOMAIN licenses THEN "LicenseNotFound"
    ELSE IF license.current_owner # caller THEN "NotLicenseOwner"
    ELSE IF ~license.is_active THEN "LicenseInactive"
    ELSE IF total_required(sale_price) = Overflow THEN "ArithmeticOverflow"
    ELSE IF attached_value < total_required(sale_price)
         THEN "InsufficientRoyaltyPayment"
    ELSE IF to_u8(license.license_type) = to_u8("Exclusive")
         THEN "CannotTransferExclusiveLicense"
    ELSE "Ok"

\* TransferError without the Exclusive check.
TransferError_NoExclusiveCheck(caller, license_id, sale_price, attached_value) ==
    LET license == get_license(license_id) IN
    IF license_id \notin DOMAIN licenses THEN "LicenseNotFound"
    ELSE IF license.current_owner # caller THEN "NotLicenseOwner"
    ELSE IF ~license.is_active THEN "LicenseInactive"
    ELSE IF total_required(sale_price) = Overflow THEN "ArithmeticOverflow"
    ELSE IF attached_value < total_required(sale_price)
         THEN "InsufficientRoyaltyPayment"
    ELSE "Ok"

\* royalty_recipient that credits the seller.
royalty_recipient_Seller(license) == license.current_owner

\* The account that transfer_license credits with the creator royalty.
royalty_recipient(license) == license.original_creator

\* The precondition checks of transfer_license in source order.
\* TransferError that refuses every transfer of a license whose sample has
\* been exclusively licensed.
TransferError_FrozenByExclusive(caller, license_id, sale_price, attached_value) ==
    LET license == get_license(license_id) IN
    IF license_id \notin DOMAIN licenses THEN "LicenseNotFound"
    ELSE IF license.current_owner # caller THEN "NotLicenseOwner"
    ELSE IF ~license.is_active THEN "LicenseInactive"
    ELSE IF to_u8(license.license_type) = to_u8("Exclusive")
         THEN "CannotTransferExclusiveLicense"
    ELSE IF sample_has_exclusive[license.sample_id]
         THEN "SampleExclusivelyLicensed"
    ELSE IF total_required(sale_price) = Overflow THEN "ArithmeticOverflow"
    ELSE IF attached_value < total_required(sale_price)
         THEN "InsufficientRoyaltyPayment"
    ELSE "Ok"

TransferError(caller, license_id, sale_price, attached_value) ==
    LET license == get_license(license_id) IN
    IF license_id \notin DOMAIN licenses THEN "LicenseNotFound"
    ELSE IF license.current_owner # caller THEN "NotLicenseOwner"
    ELSE IF ~license.is_active THEN "LicenseInactive"
    ELSE IF to_u8(license.license_type) = to_u8("Exclusive")
         THEN "CannotTransferExclusiveLicense"
    ELSE IF total_required(sale_price) = Overflow THEN "ArithmeticOverflow"
    ELSE IF attached_value < total_required(sale_price)
         THEN "InsufficientRoyaltyPayment"
    ELSE "Ok"

RECURSIVE TombstoneFirst(_, _, _)
TombstoneFirst(slots, license_id, i) ==
    IF i > Len(slots) THEN slots
    ELSE IF slots[i] = license_id THEN [slots EXCEPT ![i] = 0]
    ELSE TombstoneFirst(slots, license_id, i + 1)

\* remove_from_owner_list that leaves the slot in place.
remove_from_owner_list_NoTombstone(slots, license_id) == slots

\* remove_from_owner_list that deletes the slot and closes the gap.
remove_from_owner_list_Compact(slots, license_id) ==
    SelectSeq(slots, LAMBDA x : x # license_id)

\* The owner's slot list after remove_from_owner_list(owner, license_id).
remove_from_owner_list(slots, license_id) == TombstoneFirst(slots, license_id, 1)

\* TransferredLicense that retires the license on transfer.
TransferredLicense_Deactivates(license, to) ==
    [license EXCEPT !.current_owner = to, !.transfer_count = @ + 1,
                    !.is_active = FALSE]

\* TransferredLicense that leaves transfer_count as it was.
TransferredLicense_KeepsCount(license, to) ==
    [license EXCEPT !.current_owner = to]

\* The license record that transfer_license stores: new owner, one more transfer.
TransferredLicense(license, to) ==
    [license EXCEPT !.current_owner = to, !.transfer_count = @ + 1]

\* TransferEffects that pays the seller before the index and guard writes.
TransferEffects_PayBeforeIndex(license_id, to, sale_price) ==
    LET license == licenses[license_id]
        previous_owner == license.current_owner
        creator == royalty_recipient(license)
        royalty == creator_royalty(sale_price)
    IN << StorageSet("licenses", None, TransferredLicense(license, to)),
          TokenTransfer(previous_owner, sale_price),
          StorageSet("owner_license_at", previous_owner, 0),
          StorageSet("owner_license_at", to, license_id),
          StorageSet("user_has_license_type", previous_owner, FALSE),
          StorageSet("user_sample_license", previous_owner, 0),
          StorageSet("user_has_license_type", to, TRUE),
          StorageSet("user_sample_license", to, license_id),
          StorageSet("creator_royalty_earnings", creator,
                     U512Add(creator_royalty_earnings[creator], royalty)),
          StorageSet("creator_total_royalties", creator,
                     U512Add(creator_total_royalties[creator], royalty)),
          TokenTransfer(admin, platform_fee(sale_price)) >>

\* The storage writes and token transfers of a transfer_license call whose
\* checks all passed.
TransferEffects(license_id, to, sale_price) ==
    LET license == licenses[license_id]
        previous_owner == license.current_owner
        creator == royalty_recipient(license)
        royalty == creator_royalty(sale_price)
    IN << StorageSet("licenses", None, TransferredLicense(license, to)),
          StorageSet("owner_license_at", previous_owner, 0),
          StorageSet("owner_license_at", to, license_id),
          StorageSet("user_has_license_type", previous_owner, FALSE),
          StorageSet("user_sample_license", previous_owner, 0),
          StorageSet("user_has_license_type", to, TRUE),
          StorageSet("user_sample_license", to, license_id),
          TokenTransfer(previous_owner, sale_price),
          StorageSet("creator_royalty_earnings", creator,
                     U512Add(creator_royalty_earnings[creator], royalty)),
          StorageSet("creator_total_royalties", creator,
                     U512Add(creator_total_royalties[creator], royalty)),
          TokenTransfer(admin, platform_fee(sale_price)) >>

\* env().transfer_tokens pays out of the contract's purse, which must hold the amount.
CanPay(bal, amount) == bal[Self] >= amount

transfer_tokens(bal, to, amount) ==
    [[bal EXCEPT ![Self] = @ - amount] EXCEPT ![to] = @ + amount]

\* Attach that credits the contract without debiting the caller.
Attach_NotDebited(bal, caller, attached_value) ==
    [bal EXCEPT ![Self] = @ + attached_value]

\* The purses once the attached value has moved from the caller to the contract.
Attach(bal, caller, attached_value) ==
    [[bal EXCEPT ![caller] = @ - attached_value] EXCEPT ![Self] = @ + attached_value]

\* UserLicenseTracking that leaves the previous owner's entry as it was.
UserLicenseTracking_KeepsPrevious(tracking, prev_key, to_key, off, on) ==
    [tracking EXCEPT ![to_key] = on]

\* UserLicenseTracking that writes the recipient's entry before it clears the
\* previous owner's.
UserLicenseTracking_ClearsLast(tracking, prev_key, to_key, off, on) ==
    [[tracking EXCEPT ![to_key] = on] EXCEPT ![prev_key] = off]

\* The per-(account, sample, type) tracking after a transfer: the previous
\* owner's entry is cleared, then the recipient's entry is written.
UserLicenseTracking(tracking, prev_key, to_key, off, on) ==
    [[tracking EXCEPT ![prev_key] = off] EXCEPT ![to_key] = on]

transfer_license(caller, license_id, to, sale_price, attached_value) ==
    LET err == TransferError(caller, license_id, sale_price, attached_value) IN
    IF err # "Ok" THEN Revert("transfer_license", license_id, err)
    ELSE
      LET license == licenses[license_id]
          royalty == creator_royalty(sale_price)
          fee == platform_fee(sale_price)
          previous_owner == license.current_owner
          license_type_u8 == to_u8(license.license_type)
          sample_id == license.sample_id
          creator == royalty_recipient(license)
          updated == TransferredLicense(license, to)
          removed == [owner_license_at EXCEPT
                        ![previous_owner] = remove_from_owner_list(@, license_id)]
          prev_key == <<previous_owner, sample_id, license_type_u8>>
          to_key == <<to, sample_id, license_type_u8>>
          bal0 == Attach(balance, caller, attached_value)
          bal1 == transfer_tokens(bal0, previous_owner, sale_price)
          bal2 == transfer_tokens(bal1, admin, fee)
          transferred == [kind |-> "LicenseTransferred",
                          license_id |-> license_id,
                          from |-> previous_owner,
                          to |-> to,
                          sale_price |-> sale_price,
                          creator_royalty |-> royalty,
                          platform_fee |-> fee]
          paid == [kind |-> "RoyaltyPaid",
                   license_id |-> license_id,
                   creator |-> creator,
                   amount |-> royalty]
      IN
      IF ~CanPay(bal0, sale_price) \/ ~CanPay(bal1, fee)
      THEN Revert("transfer_license", license_id, "TransferFailed")
      ELSE IF \/ U512Add(creator_royalty_earnings[creator], royalty) = Overflow
              \/ U512Add(creator_total_royalties[creator], royalty) = Overflow
      THEN Revert("transfer_license", license_id, "ArithmeticOverflow")
      ELSE
      /\ licenses' = [licenses EXCEPT ![license_id] = updated]
      /\ owner_license_at' = [removed EXCEPT ![to] = Append(@, license_id)]
      /\ user_has_license_type' =
            UserLicenseTracking(user_has_license_type, prev_key, to_key,
                                FALSE, TRUE)
      /\ user_sample_license' =
            UserLicenseTracking(user_sample_license, prev_key, to_key,
                                0, license_id)
      /\ creator_royalty_earnings' =
            [creator_royalty_earnings EXCEPT ![creator] = U512Add(@, royalty)]
      /\ creator_total_royalties' =
            [creator_total_royalties EXCEPT ![creator] = U512Add(@, royalty)]
      /\ balance' = bal2
      /\ events' = <<transferred, paid>>
      /\ result' = [op |-> "transfer_license", target |-> license_id, err |-> "Ok",
                    ret |-> 0,
                    paid |-> <<[to |-> previous_owner, amount |-> sale_price],
                               [to |-> admin, amount |-> fee]>>,
                    effects |-> TransferEffects(license_id, to, sale_price)]
      /\ UNCHANGED <<catalog, admin, marketplace, license_count, sample_license_at,
                     sample_exclusive_holder, sample_has_exclusive>>

\* ------------------------------------------------------------------
\* withdraw_royalties
\* ------------------------------------------------------------------
\* WithdrawEffects that pays out before it zeroes the balance.
WithdrawEffects_PayFirst(caller) ==
    << TokenTransfer(caller, creator_royalty_earnings[caller]),
       StorageSet("creator_royalty_earnings", caller, 0) >>

\* The storage write and the token transfer of a withdraw_royalties call
\* with earnings to pay out.
WithdrawEffects(caller) ==
    << StorageSet("creator_royalty_earnings", caller, 0),
       TokenTransfer(caller, creator_royalty_earnings[caller]) >>

\* withdraw_royalties that takes the amount off the lifetime total as well.
withdraw_royalties_ReducesTotal(caller) ==
    LET earnings == creator_royalty_earnings[caller]
        bal1 == transfer_tokens(balance, caller, earnings)
    IN
    IF earnings = 0 THEN Revert("withdraw_royalties", 0, "NoRoyaltiesToWithdraw")
    ELSE IF ~CanPay(balance, earnings)
         THEN Revert("withdraw_royalties", 0, "TransferFailed")
    ELSE
      /\ creator_royalty_earnings' = [creator_royalty_earnings EXCEPT ![caller] = 0]
      /\ balance' = bal1
      /\ events' = <<[kind |-> "RoyaltiesWithdrawn",
                       creator |-> caller,
                       amount |-> earnings]>>
      /\ result' = [op |-> "withdraw_royalties", target |-> 0, err |-> "Ok", ret |-> 0,
                    paid |-> <<[to |-> caller, amount |-> earnings]>>,
                    effects |-> WithdrawEffects(caller)]
      /\ UNCHANGED <<catalog, admin, marketplace, licenses, license_count,
                     sample_license_at, sample_exclusive_holder,
                     sample_has_exclusive, owner_license_at, user_sample_license,
                     user_has_license_type>>
      /\ creator_total_royalties' =
            [creator_total_royalties EXCEPT ![caller] = @ - earnings]

\* withdraw_royalties that emits no event.
withdraw_royalties_Silent(caller) ==
    LET earnings == creator_royalty_earnings[caller]
        bal1 == transfer_tokens(balance, caller, earnings)
    IN
    IF earnings = 0 THEN Revert("withdraw_royalties", 0, "NoRoyaltiesToWithdraw")
    ELSE IF ~CanPay(balance, earnings)
         THEN Revert("withdraw_royalties", 0, "TransferFailed")
    ELSE
      /\ creator_royalty_earnings' = [creator_royalty_earnings EXCEPT ![caller] = 0]
      /\ balance' = bal1
      /\ events' = << >>
      /\ result' = [op |-> "withdraw_royalties", target |-> 0, err |-> "Ok", ret |-> 0,
                    paid |-> <<[to |-> caller, amount |-> earnings]>>,
                    effects |-> WithdrawEffects(caller)]
      /\ UNCHANGED <<catalog, admin, marketplace, licenses, license_count,
                     sample_license_at, sample_exclusive_holder,
                     sample_has_exclusive, owner_license_at, user_sample_license,
                     user_has_license_type, creator_total_royalties>>

\* withdraw_royalties that pays out everything the contract holds.
withdraw_royalties_SweepsPurse(caller) ==
    LET earnings == creator_royalty_earnings[caller]
        bal1 == transfer_tokens(balance, caller, balance[Self])
    IN
    IF earnings = 0 THEN Revert("withdraw_royalties", 0, "NoRoyaltiesToWithdraw")
    ELSE IF ~CanPay(balance, earnings)
         THEN Revert("withdraw_royalties", 0, "TransferFailed")
    ELSE
      /\ creator_royalty_earnings' = [creator_royalty_earnings EXCEPT ![caller] = 0]
      /\ balance' = bal1
      /\ events' = <<[kind |-> "RoyaltiesWithdrawn",
                       creator |-> caller,
                       amount |-> balance[Self]]>>
      /\ result' = [op |-> "withdraw_royalties", target |-> 0, err |-> "Ok", ret |-> 0,
                    paid |-> <<[to |-> caller, amount |-> balance[Self]]>>,
                    effects |-> WithdrawEffects(caller)]
      /\ UNCHANGED <<catalog, admin, marketplace, licenses, license_count,
                     sample_license_at, sample_exclusive_holder,
                     sample_has_exclusive, owner_license_at, user_sample_license,
                     user_has_license_type, creator_total_royalties>>

withdraw_royalties(caller) ==
    LET earnings == creator_royalty_earnings[caller]
        bal1 == transfer_tokens(balance, caller, earnings)
    IN
    IF earnings = 0 THEN Revert("withdraw_royalties", 0, "NoRoyaltiesToWithdraw")
    ELSE IF ~CanPay(balance, earnings)
         THEN Revert("withdraw_royalties", 0, "TransferFailed")
    ELSE
      /\ creator_royalty_earnings' = [creator_royalty_earnings EXCEPT ![caller] = 0]
      /\ balance' = bal1
      /\ events' = <<[kind |-> "RoyaltiesWithdrawn",
                       creator |-> caller,
                       amount |-> earnings]>>
      /\ result' = [op |-> "withdraw_royalties", target |-> 0, err |-> "Ok", ret |-> 0,
                    paid |-> <<[to |-> caller, amount |-> earnings]>>,
                    effects |-> WithdrawEffects(caller)]
      /\ UNCHANGED <<catalog, admin, marketplace, licenses, license_count,
                     sample_license_at, sample_exclusive_holder,
                     sample_has_exclusive, owner_license_at, user_sample_license,
                     user_has_license_type, creator_total_royalties>>

\* ------------------------------------------------------------------
\* SampledMarketplace, the catalog that sells samples and licenses
\* ------------------------------------------------------------------
Catalog == "catalog"
PLATFORM_FEE_NUMERATOR == 10
PLATFORM_FEE_DENOMINATOR == 100

default_pricing ==
    [Personal |-> 100, Commercial |-> 250, Broadcast |-> 500, Exclusive |-> 2000]

\* The sample's custom multipliers if set, the defaults otherwise.
get_license_pricing(sample_id) ==
    IF sample_id \in DOMAIN catalog.sample_license_pricing
    THEN catalog.sample_license_pricing[sample_id]
    ELSE default_pricing

\* calculate_license_price that ignores the sample's custom multipliers.
calculate_license_price_DefaultsOnly(sample_id, license_type, base_price) ==
    U512Div(U512Mul(base_price, default_pricing[license_type]), 100)

calculate_license_price(sample_id, license_type, base_price) ==
    U512Div(U512Mul(base_price, get_license_pricing(sample_id)[license_type]), 100)

has_purchased_internal(buyer, sample_id) ==
    <<buyer, sample_id>> \in DOMAIN catalog.user_purchase_records

\* Mapping::set on user_purchase_records.
PutRecord(records, key, record) ==
    [k \in DOMAIN records \cup {key} |-> IF k = key THEN record ELSE records[k]]

CatalogAttach(bal, caller, attached_value) ==
    [[bal EXCEPT ![caller] = @ - attached_value] EXCEPT ![Catalog] = @ + attached_value]

CatalogPay(bal, to, amount) ==
    [[bal EXCEPT ![Catalog] = @ - amount] EXCEPT ![to] = @ + amount]

\* A catalog call that touched the catalog only has ended.
CatalogDone(op, target) ==
    /\ result' = [op |-> op, target |-> target, err |-> "Ok", ret |-> 0,
                  paid |-> << >>, effects |-> << >>]
    /\ events' = << >>

\* The title and link checks need strings, which the model leaves out.
upload_sample(caller, price, timestamp) ==
    IF price = 0 THEN Revert("upload_sample", 0, "InvalidPrice")
    ELSE
      LET sample_id == catalog.sample_count + 1
          sample == [sample_id |-> sample_id,
                     seller |-> caller,
                     price |-> price,
                     total_sales |-> 0,
                     is_active |-> TRUE,
                     created_at |-> timestamp]
      IN
      /\ catalog' = [catalog EXCEPT
                        !.sample_count = sample_id,
                        !.samples = Append(@, sample),
                        !.user_uploaded_at[caller] = Append(@, sample_id),
                        !.events = <<[kind |-> "SampleUploaded",
                                      sample_id |-> sample_id,
                                      seller |-> caller,
                                      price |-> price,
                                      timestamp |-> timestamp]>>]
      /\ CatalogDone("upload_sample", sample_id)
      /\ UNCHANGED ledger

PurchaseSampleError(caller, sample_id, attached_value) ==
    IF sample_id \notin DOMAIN catalog.samples THEN "SampleNotFound"
    ELSE IF ~catalog.samples[sample_id].is_active THEN "SampleInactive"
    ELSE IF attached_value < catalog.samples[sample_id].price
         THEN "InsufficientPayment"
    ELSE IF has_purchased_internal(caller, sample_id) THEN "AlreadyPurchased"
    ELSE "Ok"

\* The catalog's storage after a sale of sample_id at price to caller.
CatalogSale(sample, caller, sample_id, price, fee, timestamp) ==
    LET seller == catalog.samples[sample_id].seller
        record == [sample_id |-> sample_id,
                   seller |-> seller,
                   price |-> price,
                   timestamp |-> timestamp]
        stored == [catalog EXCEPT
                     !.samples[sample_id] = sample,
                     !.total_volume = @ + price,
                     !.platform_fee_collected = @ + fee,
                     !.user_purchased_at[caller] = Append(@, sample_id),
                     !.user_total_spent[caller] = @ + price,
                     !.user_purchase_records =
                         PutRecord(@, <<caller, sample_id>>, record),
                     !.events = <<[kind |-> "SamplePurchased",
                                   sample_id |-> sample_id,
                                   buyer |-> caller,
                                   seller |-> seller,
                                   price |-> price,
                                   platform_fee |-> fee,
                                   timestamp |-> timestamp]>>]
    IN [stored EXCEPT !.user_earnings[seller] = @ + (price - fee),
                      !.user_total_earned[seller] = @ + (price - fee)]

purchase_sample(caller, sample_id, attached_value, timestamp) ==
    LET err == PurchaseSampleError(caller, sample_id, attached_value) IN
    IF err # "Ok" THEN Revert("purchase_sample", sample_id, err)
    ELSE
      LET sample == catalog.samples[sample_id]
          platform_fee_amount ==
              U512Div(U512Mul(sample.price, PLATFORM_FEE_NUMERATOR),
                      PLATFORM_FEE_DENOMINATOR)
          bal0 == CatalogAttach(balance, caller, attached_value)
      IN
      IF bal0[Catalog] < platform_fee_amount
      THEN Revert("purchase_sample", sample_id, "TransferFailed")
      ELSE
      /\ catalog' = CatalogSale([sample EXCEPT !.total_sales = @ + 1], caller,
                                sample_id, sample.price, platform_fee_amount,
                                timestamp)
      /\ balance' = CatalogPay(bal0, catalog.admin, platform_fee_amount)
      /\ CatalogDone("purchase_sample", sample_id)
      /\ UNCHANGED <<admin, marketplace, licenses, license_count,
                     sample_license_at, sample_exclusive_holder,
                     sample_has_exclusive, owner_license_at, user_sample_license,
                     user_has_license_type, creator_royalty_earnings,
                     creator_total_royalties>>

deactivate_sample(caller, sample_id) ==
    IF sample_id \notin DOMAIN catalog.samples
    THEN Revert("deactivate_sample", sample_id, "SampleNotFound")
    ELSE IF catalog.samples[sample_id].seller # caller
    THEN Revert("deactivate_sample", sample_id, "NotSeller")
    ELSE
      /\ catalog' = [catalog EXCEPT
                        !.samples[sample_id].is_active = FALSE,
                        !.events = <<[kind |-> "SampleDeactivated",
                                      sample_id |-> sample_id,
                                      seller |-> caller]>>]
      /\ CatalogDone("deactivate_sample", sample_id)
      /\ UNCHANGED ledger

set_license_nft_contract(caller, license_contract) ==
    IF caller # catalog.admin
    THEN Revert("set_license_nft_contract", 0, "Unauthorized")
    ELSE
      /\ catalog' = [catalog EXCEPT !.license_nft_contract = license_contract,
                                     !.events = << >>]
      /\ CatalogDone("set_license_nft_contract", 0)
      /\ UNCHANGED ledger

set_license_pricing(caller, sample_id, personal_mult, commercial_mult, broadcast_mult, exclusive_mult) ==
    IF 0 \in {personal_mult, commercial_mult, broadcast_mult, exclusive_mult}
    THEN Revert("set_license_pricing", sample_id, "InvalidPricingMultiplier")
    ELSE IF sample_id \notin DOMAIN catalog.samples
    THEN Revert("set_license_pricing", sample_id, "SampleNotFound")
    ELSE IF catalog.samples[sample_id].seller # caller
    THEN Revert("set_license_pricing", sample_id, "NotSeller")
    ELSE
      LET pricing == [Personal |-> personal_mult,
                      Commercial |-> commercial_mult,
                      Broadcast |-> broadcast_mult,
                      Exclusive |-> exclusive_mult]
      IN
      /\ catalog' = [catalog EXCEPT
                        !.sample_license_pricing = PutRecord(@, sample_id, pricing),
                        !.events = <<[kind |-> "LicensePricingUpdated",
                                      sample_id |-> sample_id,
                                      personal_mult |-> personal_mult,
                                      commercial_mult |-> commercial_mult,
                                      broadcast_mult |-> broadcast_mult,
                                      exclusive_mult |-> exclusive_mult]>>]
      /\ CatalogDone("set_license_pricing", sample_id)
      /\ UNCHANGED ledger

\* The checks of purchase_sample_license up to the payment, in source order;
\* the exclusivity is the ledger's answer to is_exclusively_licensed.
PurchaseLicenseError(caller, sample_id, license_type, attached_value) ==
    IF sample_id \notin DOMAIN catalog.samples THEN "SampleNotFound"
    ELSE IF ~catalog.samples[sample_id].is_active THEN "SampleInactive"
    ELSE IF catalog.samples[sample_id].seller = caller
         THEN "CannotPurchaseOwnSample"
    ELSE IF catalog.license_nft_contract = None THEN "LicenseContractNotSet"
    ELSE IF is_exclusively_licensed(sample_id) THEN "SampleExclusivelyLicensed"
    ELSE IF from_u8(license_type) = None THEN "InvalidLicenseType"
    ELSE IF calculate_license_price(sample_id, from_u8(license_type),
                                    catalog.samples[sample_id].price) = Overflow
         THEN "ArithmeticOverflow"
    ELSE IF attached_value <
              calculate_license_price(sample_id, from_u8(license_type),
                                      catalog.samples[sample_id].price)
         THEN "InsufficientPayment"
    ELSE IF U512Mul(calculate_license_price(sample_id, from_u8(license_type),
                                            catalog.samples[sample_id].price),
                    PLATFORM_FEE_NUMERATOR) = Overflow
         THEN "ArithmeticOverflow"
    ELSE "Ok"

\* SoldSample that leaves the sample listed after an Exclusive sale.
SoldSample_StaysListed(sample, license_type) ==
    [sample EXCEPT !.total_sales = @ + 1]

\* The sample record once a license of it is sold: one more sale, and off
\* the market when the license is Exclusive.
SoldSample(sample, license_type) ==
    [sample EXCEPT !.total_sales = @ + 1,
                   !.is_active = IF to_u8(license_type) = to_u8("Exclusive")
                                 THEN FALSE ELSE @]

\* purchase_sample_license that keeps its own writes and the fee transfer when
\* the mint fails.
purchase_sample_license_KeepsCatalogWrites(caller, sample_id, license_type, attached_value, timestamp) ==
    LET err == PurchaseLicenseError(caller, sample_id, license_type, attached_value) IN
    IF err # "Ok" THEN Revert("purchase_sample_license", sample_id, err)
    ELSE
      LET sample == catalog.samples[sample_id]
          lt == from_u8(license_type)
          license_price == calculate_license_price(sample_id, lt, sample.price)
          platform_fee_amount ==
              U512Div(U512Mul(license_price, PLATFORM_FEE_NUMERATOR),
                      PLATFORM_FEE_DENOMINATOR)
          bal0 == CatalogAttach(balance, caller, attached_value)
          mint_err == MintError(Catalog, sample_id, license_type, caller)
      IN
      IF bal0[Catalog] < platform_fee_amount
      THEN Revert("purchase_sample_license", sample_id, "TransferFailed")
      ELSE IF mint_err # "Ok"
      THEN /\ catalog' = CatalogSale(SoldSample(sample, lt), caller, sample_id,
                                     license_price, platform_fee_amount, timestamp)
           /\ balance' = CatalogPay(bal0, catalog.admin, platform_fee_amount)
           /\ result' = [op |-> "purchase_sample_license", target |-> sample_id,
                         err |-> mint_err, ret |-> 0, paid |-> << >>,
                         effects |-> << >>]
           /\ events' = << >>
           /\ UNCHANGED <<admin, marketplace, licenses, license_count,
                          sample_license_at, sample_exclusive_holder,
                          sample_has_exclusive, owner_license_at,
                          user_sample_license, user_has_license_type,
                          creator_royalty_earnings, creator_total_royalties>>
      ELSE
      /\ catalog' = CatalogSale(SoldSample(sample, lt), caller, sample_id,
                                license_price, platform_fee_amount, timestamp)
      /\ balance' = CatalogPay(bal0, catalog.admin, platform_fee_amount)
      /\ MintCommit(sample_id, license_type, caller, sample.seller,
                    license_price, timestamp)

\* The call ends inside the ledger's mint_license, so result and events are
\* those of the mint; a revert of the mint reverts the purchase as a whole.
purchase_sample_license(caller, sample_id, license_type, attached_value, timestamp) ==
    LET err == PurchaseLicenseError(caller, sample_id, license_type, attached_value) IN
    IF err # "Ok" THEN Revert("purchase_sample_license", sample_id, err)
    ELSE
      LET sample == catalog.samples[sample_id]
          lt == from_u8(license_type)
          license_price == calculate_license_price(sample_id, lt, sample.price)
          platform_fee_amount ==
              U512Div(U512Mul(license_price, PLATFORM_FEE_NUMERATOR),
                      PLATFORM_FEE_DENOMINATOR)
          bal0 == CatalogAttach(balance, caller, attached_value)
          mint_err == MintError(Catalog, sample_id, license_type, caller)
      IN
      IF bal0[Catalog] < platform_fee_amount
      THEN Revert("purchase_sample_license", sample_id, "TransferFailed")
      ELSE IF mint_err # "Ok"
      THEN Revert("purchase_sample_license", sample_id, mint_err)
      ELSE
      /\ catalog' = CatalogSale(SoldSample(sample, lt), caller, sample_id,
                                license_price, platform_fee_amount, timestamp)
      /\ balance' = CatalogPay(bal0, catalog.admin, platform_fee_amount)
      /\ MintCommit(sample_id, license_type, caller, sample.seller,
                    license_price, timestamp)

\* ------------------------------------------------------------------
\* Next-state relation
\* ------------------------------------------------------------------
RECURSIVE SumTransfers(_, _)
SumTransfers(lics, i) ==
    IF i > Len(lics) THEN 0 ELSE lics[i].transfer_count + SumTransfers(lics, i + 1)

TotalTransfers == SumTransfers(licenses, 1)

SetMarketplaceCall ==
    /\ UNCHANGED calls
    /\ \E caller \in Address, m \in MarketplaceInputs : set_marketplace(caller, m)

\* Mint calls are explored while fewer than MaxLicenses licenses exist.
MintCall ==
    /\ UNCHANGED calls
    /\ license_count < MaxLicenses
    /\ \E caller \in Address, sample_id \in SampleId,
          license_type \in LicenseTypeInputs, buyer \in BuyerInputs,
          original_creator \in CreatorInputs, purchase_price \in PurchasePrices,
          timestamp \in BlockTimes :
            mint_license(caller, sample_id, license_type, buyer,
                         original_creator, purchase_price, timestamp)

\* Transfer calls are explored while fewer than MaxTransfers transfers have
\* succeeded; the caller can attach no more than it holds.
TransferCall ==
    /\ UNCHANGED calls
    /\ TotalTransfers < MaxTransfers
    /\ \E caller \in Address, license_id \in 1..(license_count + 1),
          to \in ToInputs, sale_price \in SalePrices,
          attached_value \in AttachedValues :
            /\ attached_value <= balance[caller]
            /\ transfer_license(caller, license_id, to, sale_price, attached_value)

WithdrawCall ==
    /\ UNCHANGED calls
    /\ \E caller \in Address : withdraw_royalties(caller)

Next ==
    \/ SetMarketplaceCall
    \/ MintCall
    \/ TransferCall
    \/ WithdrawCall

Spec == Init /\ [][Next]_vars

\* ------------------------------------------------------------------
\* SpecPay: the same entry points, driven with a range of sale prices and
\* attached values around each required total
\* ------------------------------------------------------------------
PayMintCall ==
    /\ UNCHANGED calls
    /\ license_count < PayMaxLicenses
    /\ \E caller \in Address, sample_id \in PaySampleId,
          license_type \in PayLicenseTypeInputs, buyer \in PayBuyerInputs,
          original_creator \in CreatorInputs, purchase_price \in PurchasePrices,
          timestamp \in BlockTimes :
            mint_license(caller, sample_id, license_type, buyer,
                         original_creator, purchase_price, timestamp)

PayTransferCall ==
    /\ UNCHANGED calls
    /\ TotalTransfers < PayMaxTransfers
    /\ \E caller \in Address, license_id \in 1..(license_count + 1),
          to \in PayToInputs, sale_price \in PaySalePrices,
          attached_value \in PayAttachedValues :
            /\ attached_value <= balance[caller]
            /\ transfer_license(caller, license_id, to, sale_price, attached_value)

NextPay ==
    \/ SetMarketplaceCall
    \/ PayMintCall
    \/ PayTransferCall
    \/ WithdrawCall

SpecPay == Init /\ [][NextPay]_vars

\* ------------------------------------------------------------------
\* SpecWide: transfers whose sale price makes the royalty product overflow
\* ------------------------------------------------------------------
WideMintCall ==
    /\ UNCHANGED calls
    /\ license_count < WideMaxLicenses
    /\ \E caller \in Address, sample_id \in SampleId,
          license_type \in PayLicenseTypeInputs, buyer \in BuyerInputs,
          original_creator \in CreatorInputs, purchase_price \in PurchasePrices,
          timestamp \in BlockTimes :
            mint_license(caller, sample_id, license_type, buyer,
                         original_creator, purchase_price, timestamp)

WideTransferCall ==
    /\ UNCHANGED calls
    /\ TotalTransfers < WideMaxTransfers
    /\ \E caller \in Address, license_id \in 1..(license_count + 1),
          to \in ToInputs, sale_price \in WideSalePrices,
          attached_value \in WideAttachedValues :
            /\ attached_value <= balance[caller]
            /\ transfer_license(caller, license_id, to, sale_price, attached_value)

NextWide ==
    \/ SetMarketplaceCall
    \/ WideMintCall
    \/ WideTransferCall
    \/ WithdrawCall

SpecWide == Init /\ [][NextWide]_vars

\* ------------------------------------------------------------------
\* SpecFrame: licenses of two creators, each transferred once
\* ------------------------------------------------------------------
FrameMintCall ==
    /\ UNCHANGED calls
    /\ license_count < FrameMaxLicenses
    /\ \E caller \in Address, sample_id \in PaySampleId,
          license_type \in FrameLicenseTypeInputs, buyer \in FrameBuyerInputs,
          original_creator \in FrameCreatorInputs, purchase_price \in PurchasePrices,
          timestamp \in BlockTimes :
            mint_license(caller, sample_id, license_type, buyer,
                         original_creator, purchase_price, timestamp)

FrameTransferCall ==
    /\ UNCHANGED calls
    /\ TotalTransfers < FrameMaxTransfers
    /\ \E caller \in Address, license_id \in 1..(license_count + 1),
          to \in PayToInputs, sale_price \in SalePrices,
          attached_value \in AttachedValues :
            /\ attached_value <= balance[caller]
            /\ transfer_license(caller, license_id, to, sale_price, attached_value)

NextFrame ==
    \/ SetMarketplaceCall
    \/ FrameMintCall
    \/ FrameTransferCall
    \/ WithdrawCall

SpecFrame == Init /\ [][NextFrame]_vars

\* ------------------------------------------------------------------
\* SpecFee: one license transferred at every small sale price
\* ------------------------------------------------------------------
FeeMintCall ==
    /\ UNCHANGED calls
    /\ license_count < FeeMaxLicenses
    /\ \E caller \in Address, sample_id \in PaySampleId,
          license_type \in PayLicenseTypeInputs, buyer \in FeeBuyerInputs,
          original_creator \in CreatorInputs, purchase_price \in PurchasePrices,
          timestamp \in BlockTimes :
            mint_license(caller, sample_id, license_type, buyer,
                         original_creator, purchase_price, timestamp)

FeeTransferCall ==
    /\ UNCHANGED calls
    /\ TotalTransfers < FeeMaxTransfers
    /\ \E caller \in Address, license_id \in 1..(license_count + 1),
          to \in PayToInputs, sale_price \in FeeSalePrices :
          \E attached_value \in FeeAttachedValues(sale_price) :
            /\ attached_value <= balance[caller]
            /\ transfer_license(caller, license_id, to, sale_price, attached_value)

NextFee ==
    \/ SetMarketplaceCall
    \/ FeeMintCall
    \/ FeeTransferCall
    \/ WithdrawCall

SpecFee == Init /\ [][NextFee]_vars

\* ------------------------------------------------------------------
\* SpecAdmin: the same entry points with two candidate marketplace addresses
\* ------------------------------------------------------------------
AdminSetMarketplaceCall ==
    /\ UNCHANGED calls
    /\ \E caller \in Address, m \in AdminMarketplaceInputs : set_marketplace(caller, m)

AdminMintCall ==
    /\ UNCHANGED calls
    /\ license_count < AdminMaxLicenses
    /\ \E caller \in Address, sample_id \in PaySampleId,
          license_type \in PayLicenseTypeInputs, buyer \in PayBuyerInputs,
          original_creator \in CreatorInputs, purchase_price \in PurchasePrices,
          timestamp \in BlockTimes :
            mint_license(caller, sample_id, license_type, buyer,
                         original_creator, purchase_price, timestamp)

AdminTransferCall ==
    /\ UNCHANGED calls
    /\ TotalTransfers < AdminMaxTransfers
    /\ \E caller \in Address, license_id \in 1..(license_count + 1),
          to \in PayToInputs, sale_price \in SalePrices,
          attached_value \in AttachedValues :
            /\ attached_value <= balance[caller]
            /\ transfer_license(caller, license_id, to, sale_price, attached_value)

NextAdmin ==
    \/ AdminSetMarketplaceCall
    \/ AdminMintCall
    \/ AdminTransferCall
    \/ WithdrawCall

SpecAdmin == Init /\ [][NextAdmin]_vars

\* ------------------------------------------------------------------
\* SpecCatalog: the catalog registered as the ledger's marketplace; every
\* license is minted by purchase_sample_license
\* ------------------------------------------------------------------
RECURSIVE SumSales(_, _)
SumSales(samples, i) ==
    IF i > Len(samples) THEN 0 ELSE samples[i].total_sales + SumSales(samples, i + 1)

CatalogSales == SumSales(catalog.samples, 1)

InitCatalog == ContractsInit(CatalogSampleId, Address \cup {Self, Catalog})

CatSetMarketplaceCall ==
    /\ UNCHANGED calls
    /\ \E caller \in Address : set_marketplace(caller, Catalog)

SetLicenseContractCall ==
    /\ UNCHANGED calls
    /\ \E caller \in Address : set_license_nft_contract(caller, Self)

UploadCall ==
    /\ UNCHANGED calls
    /\ catalog.sample_count + 1 \in CatalogSampleId
    /\ \E caller \in CatSellerInputs, price \in CatPrices, timestamp \in BlockTimes :
          upload_sample(caller, price, timestamp)

PurchaseSampleCall ==
    /\ UNCHANGED calls
    /\ CatalogSales < CatMaxPurchases
    /\ \E caller \in CatBuyerInputs, sample_id \in CatalogSampleId,
          attached_value \in CatAttachedValues, timestamp \in BlockTimes :
            /\ attached_value <= balance[caller]
            /\ purchase_sample(caller, sample_id, attached_value, timestamp)

PurchaseLicenseCall ==
    /\ UNCHANGED calls
    /\ CatalogSales < CatMaxPurchases
    /\ \E caller \in CatBuyerInputs, sample_id \in CatalogSampleId,
          license_type \in CatLicenseTypeInputs,
          attached_value \in CatAttachedValues, timestamp \in BlockTimes :
            /\ attached_value <= balance[caller]
            /\ purchase_sample_license(caller, sample_id, license_type,
                                       attached_value, timestamp)

DeactivateCall ==
    /\ UNCHANGED calls
    /\ \E caller \in Address, sample_id \in CatalogSampleId :
           deactivate_sample(caller, sample_id)

\* mint_license called by an account rather than by the catalog.
DirectMintCall ==
    /\ UNCHANGED calls
    /\ \E caller \in Address, sample_id \in CatalogSampleId,
          license_type \in CatLicenseTypeInputs, buyer \in CatBuyerInputs,
          original_creator \in CatSellerInputs, purchase_price \in PurchasePrices,
          timestamp \in BlockTimes :
           mint_license(caller, sample_id, license_type, buyer,
                        original_creator, purchase_price, timestamp)

NextCatalog ==
    \/ CatSetMarketplaceCall
    \/ SetLicenseContractCall
    \/ UploadCall
    \/ PurchaseSampleCall
    \/ PurchaseLicenseCall
    \/ DeactivateCall
    \/ DirectMintCall

SpecCatalog == InitCatalog /\ [][NextCatalog]_vars

\* ------------------------------------------------------------------
\* SpecPurchase: license purchases of one sample at default and custom
\* multipliers, with the ledger's marketplace set to the catalog or elsewhere
\* ------------------------------------------------------------------
PurMarketplaceInputs == {Catalog, "a1"}

InitPurchase == ContractsInit(PurSampleId, Address \cup {Self, Catalog})

PurSetMarketplaceCall ==
    /\ UNCHANGED calls
    /\ \E caller \in Address, m \in PurMarketplaceInputs : set_marketplace(caller, m)

PurUploadCall ==
    /\ UNCHANGED calls
    /\ catalog.sample_count + 1 \in PurSampleId
    /\ \E caller \in CatSellerInputs, price \in PurPrices, timestamp \in BlockTimes :
          upload_sample(caller, price, timestamp)

SetPricingCall ==
    /\ UNCHANGED calls
    /\ \E caller \in Address, sample_id \in PurSampleId, m \in PurMultipliers :
           set_license_pricing(caller, sample_id, m[1], m[2], m[3], m[4])

PurPurchaseLicenseCall ==
    /\ UNCHANGED calls
    /\ CatalogSales < PurMaxPurchases
    /\ \E caller \in PurBuyerInputs, sample_id \in PurSampleId,
          license_type \in PurLicenseTypeInputs,
          attached_value \in PurAttachedValues, timestamp \in BlockTimes :
            /\ attached_value <= balance[caller]
            /\ purchase_sample_license(caller, sample_id, license_type,
                                       attached_value, timestamp)

NextPurchase ==
    \/ PurSetMarketplaceCall
    \/ SetLicenseContractCall
    \/ PurUploadCall
    \/ SetPricingCall
    \/ PurPurchaseLicenseCall

SpecPurchase == InitPurchase /\ [][NextPurchase]_vars

\* ------------------------------------------------------------------
\* SpecSelf: licenses of one sample, Exclusive or not, that their owners
\* transfer to themselves or to an account that holds none
\* ------------------------------------------------------------------
SelfMintCall ==
    /\ UNCHANGED calls
    /\ license_count < SelfMaxLicenses
    /\ \E caller \in Address, sample_id \in PaySampleId,
          license_type \in PayLicenseTypeInputs, buyer \in PayBuyerInputs,
          original_creator \in CreatorInputs, purchase_price \in PurchasePrices,
          timestamp \in BlockTimes :
            mint_license(caller, sample_id, license_type, buyer,
                         original_creator, purchase_price, timestamp)

SelfTransferCall ==
    /\ UNCHANGED calls
    /\ TotalTransfers < SelfMaxTransfers
    /\ \E caller \in Address, license_id \in 1..(license_count + 1),
          to \in SelfToInputs, sale_price \in SalePrices,
          attached_value \in AttachedValues :
            /\ attached_value <= balance[caller]
            /\ transfer_license(caller, license_id, to, sale_price, attached_value)

NextSelf ==
    \/ SetMarketplaceCall
    \/ SelfMintCall
    \/ SelfTransferCall
    \/ WithdrawCall

SpecSelf == Init /\ [][NextSelf]_vars

\* ------------------------------------------------------------------
\* SpecReentry: transfer_license and withdraw_royalties cut at their token
\* transfers. After each transfer the account that was paid may call
\* transfer_license or withdraw_royalties before the paying call goes on; a
\* revert at any depth undoes the whole transaction.
\* ------------------------------------------------------------------
InCall == calls.stack # << >>

Top == calls.stack[Len(calls.stack)]

\* A call comes from outside, or from the account the innermost suspended
\* call has just paid.
MayCall(caller) ==
    IF InCall
    THEN Len(calls.stack) < ReMaxDepth /\ caller = Top.recipient
    ELSE TRUE

\* The contract's storage and purses, kept while a transaction runs.
Snapshot ==
    [admin |-> admin, marketplace |-> marketplace, licenses |-> licenses,
     license_count |-> license_count, sample_license_at |-> sample_license_at,
     sample_exclusive_holder |-> sample_exclusive_holder,
     sample_has_exclusive |-> sample_has_exclusive,
     owner_license_at |-> owner_license_at,
     user_sample_license |-> user_sample_license,
     user_has_license_type |-> user_has_license_type,
     creator_royalty_earnings |-> creator_royalty_earnings,
     creator_total_royalties |-> creator_total_royalties,
     balance |-> balance,
     withdrawn |-> calls.withdrawn, finished |-> calls.finished]

\* The suspended calls once a call has reached a token transfer.
Entered(c, frame) ==
    [c EXCEPT !.stack = Append(@, frame),
              !.snapshot = IF InCall THEN @ ELSE <<Snapshot>>]

\* The suspended calls once the innermost one has returned.
Returned(c) ==
    [c EXCEPT !.stack = SubSeq(@, 1, Len(@) - 1),
              !.snapshot = IF Len(c.stack) = 1 THEN << >> ELSE @]

\* env().revert: the call and every call it is nested in end without effect.
Abort(op, target, err) ==
    IF ~InCall THEN Revert(op, target, err) /\ UNCHANGED calls
    ELSE LET s == calls.snapshot[1] IN
      /\ admin' = s.admin
      /\ marketplace' = s.marketplace
      /\ licenses' = s.licenses
      /\ license_count' = s.license_count
      /\ sample_license_at' = s.sample_license_at
      /\ sample_exclusive_holder' = s.sample_exclusive_holder
      /\ sample_has_exclusive' = s.sample_has_exclusive
      /\ owner_license_at' = s.owner_license_at
      /\ user_sample_license' = s.user_sample_license
      /\ user_has_license_type' = s.user_has_license_type
      /\ creator_royalty_earnings' = s.creator_royalty_earnings
      /\ creator_total_royalties' = s.creator_total_royalties
      /\ balance' = s.balance
      /\ calls' = [stack |-> << >>, snapshot |-> << >>,
                   withdrawn |-> s.withdrawn, finished |-> s.finished]
      /\ result' = [op |-> op, target |-> target, err |-> err, ret |-> 0,
                    paid |-> << >>, effects |-> << >>]
      /\ events' = << >>
      /\ UNCHANGED catalog

\* transfer_license up to and including the payment of sale_price to the
\* previous owner.
transfer_license_effects(caller, license_id, to, sale_price, attached_value) ==
    LET err == TransferError(caller, license_id, sale_price, attached_value) IN
    IF err # "Ok" THEN Abort("transfer_license", license_id, err)
    ELSE
      LET license == licenses[license_id]
          previous_owner == license.current_owner
          license_type_u8 == to_u8(license.license_type)
          sample_id == license.sample_id
          removed == [owner_license_at EXCEPT
                        ![previous_owner] = remove_from_owner_list(@, license_id)]
          prev_key == <<previous_owner, sample_id, license_type_u8>>
          to_key == <<to, sample_id, license_type_u8>>
          bal0 == Attach(balance, caller, attached_value)
          frame == [op |-> "transfer_license", pc |-> "royalty",
                    license_id |-> license_id, to |-> to,
                    previous_owner |-> previous_owner,
                    creator |-> royalty_recipient(license),
                    sale_price |-> sale_price, amount |-> sale_price,
                    recipient |-> previous_owner]
      IN
      IF ~CanPay(bal0, sale_price)
      THEN Abort("transfer_license", license_id, "TransferFailed")
      ELSE
      /\ licenses' = [licenses EXCEPT
                        ![license_id] = TransferredLicense(license, to)]
      /\ owner_license_at' = [removed EXCEPT ![to] = Append(@, license_id)]
      /\ user_has_license_type' =
            UserLicenseTracking(user_has_license_type, prev_key, to_key,
                                FALSE, TRUE)
      /\ user_sample_license' =
            UserLicenseTracking(user_sample_license, prev_key, to_key,
                                0, license_id)
      /\ balance' = transfer_tokens(bal0, previous_owner, sale_price)
      /\ calls' = Entered(calls, frame)
      /\ UNCHANGED <<catalog, admin, marketplace, license_count, sample_license_at,
                     sample_exclusive_holder, sample_has_exclusive,
                     creator_royalty_earnings, creator_total_royalties,
                     events, result>>

\* transfer_license from the royalty credit to the payment of the platform
\* fee to the admin.
transfer_license_royalty ==
    LET f == Top
        royalty == creator_royalty(f.sale_price)
        fee == platform_fee(f.sale_price)
    IN
    IF \/ U512Add(creator_royalty_earnings[f.creator], royalty) = Overflow
       \/ U512Add(creator_total_royalties[f.creator], royalty) = Overflow
    THEN Abort("transfer_license", f.license_id, "ArithmeticOverflow")
    ELSE IF ~CanPay(balance, fee)
    THEN Abort("transfer_license", f.license_id, "TransferFailed")
    ELSE
      /\ creator_royalty_earnings' =
            [creator_royalty_earnings EXCEPT ![f.creator] = U512Add(@, royalty)]
      /\ creator_total_royalties' =
            [creator_total_royalties EXCEPT ![f.creator] = U512Add(@, royalty)]
      /\ balance' = transfer_tokens(balance, admin, fee)
      /\ calls' = [calls EXCEPT
                     !.stack[Len(calls.stack)] =
                         [f EXCEPT !.pc = "events", !.recipient = admin,
                                   !.amount = fee]]
      /\ UNCHANGED <<catalog, admin, marketplace, licenses, license_count,
                     sample_license_at, sample_exclusive_holder,
                     sample_has_exclusive, owner_license_at, user_sample_license,
                     user_has_license_type, events, result>>

\* The end of transfer_license: its two events.
transfer_license_events ==
    LET f == Top
        royalty == creator_royalty(f.sale_price)
        fee == platform_fee(f.sale_price)
    IN
    /\ events' = <<[kind |-> "LicenseTransferred",
                    license_id |-> f.license_id,
                    from |-> f.previous_owner,
                    to |-> f.to,
                    sale_price |-> f.sale_price,
                    creator_royalty |-> royalty,
                    platform_fee |-> fee],
                   [kind |-> "RoyaltyPaid",
                    license_id |-> f.license_id,
                    creator |-> f.creator,
                    amount |-> royalty]>>
    /\ result' = [op |-> "transfer_license", target |-> f.license_id,
                  err |-> "Ok", ret |-> 0,
                  paid |-> <<[to |-> f.previous_owner, amount |-> f.sale_price],
                             [to |-> admin, amount |-> fee]>>,
                  effects |-> << >>]
    /\ calls' = [Returned(calls) EXCEPT
                   !.finished = PutRecord(@, f.license_id,
                                          [from |-> f.previous_owner,
                                           to |-> f.to])]
    /\ UNCHANGED <<ledger, catalog>>

\* withdraw_royalties_payout that pays out before the earnings are reset.
withdraw_royalties_payout_KeepsEarnings(caller) ==
    LET earnings == creator_royalty_earnings[caller]
        frame == [op |-> "withdraw_royalties", pc |-> "events",
                  license_id |-> 0, to |-> caller, previous_owner |-> caller,
                  creator |-> caller, sale_price |-> 0, amount |-> earnings,
                  recipient |-> caller]
    IN
    IF earnings = 0 THEN Abort("withdraw_royalties", 0, "NoRoyaltiesToWithdraw")
    ELSE IF ~CanPay(balance, earnings)
         THEN Abort("withdraw_royalties", 0, "TransferFailed")
    ELSE
      /\ balance' = transfer_tokens(balance, caller, earnings)
      /\ calls' = [Entered(calls, frame) EXCEPT
                     !.withdrawn[caller] = @ + earnings]
      /\ UNCHANGED <<catalog, admin, marketplace, licenses, license_count,
                     sample_license_at, sample_exclusive_holder,
                     sample_has_exclusive, owner_license_at, user_sample_license,
                     user_has_license_type, creator_royalty_earnings,
                     creator_total_royalties, events, result>>

\* withdraw_royalties up to and including the payment to the caller.
withdraw_royalties_payout(caller) ==
    LET earnings == creator_royalty_earnings[caller]
        frame == [op |-> "withdraw_royalties", pc |-> "events",
                  license_id |-> 0, to |-> caller, previous_owner |-> caller,
                  creator |-> caller, sale_price |-> 0, amount |-> earnings,
                  recipient |-> caller]
    IN
    IF earnings = 0 THEN Abort("withdraw_royalties", 0, "NoRoyaltiesToWithdraw")
    ELSE IF ~CanPay(balance, earnings)
         THEN Abort("withdraw_royalties", 0, "TransferFailed")
    ELSE
      /\ creator_royalty_earnings' = [creator_royalty_earnings EXCEPT ![caller] = 0]
      /\ balance' = transfer_tokens(balance, caller, earnings)
      /\ calls' = [Entered(calls, frame) EXCEPT
                     !.withdrawn[caller] = @ + earnings]
      /\ UNCHANGED <<catalog, admin, marketplace, licenses, license_count,
                     sample_license_at, sample_exclusive_holder,
                     sample_has_exclusive, owner_license_at, user_sample_license,
                     user_has_license_type, creator_total_royalties,
                     events, result>>

\* The end of withdraw_royalties: its event.
withdraw_royalties_event ==
    LET f == Top IN
    /\ events' = <<[kind |-> "RoyaltiesWithdrawn",
                    creator |-> f.recipient,
                    amount |-> f.amount]>>
    /\ result' = [op |-> "withdraw_royalties", target |-> 0, err |-> "Ok",
                  ret |-> 0,
                  paid |-> <<[to |-> f.recipient, amount |-> f.amount]>>,
                  effects |-> << >>]
    /\ calls' = Returned(calls)
    /\ UNCHANGED <<ledger, catalog>>

ReSetMarketplace ==
    /\ ~InCall
    /\ SetMarketplaceCall

ReMint ==
    /\ ~InCall
    /\ license_count < ReMaxLicenses
    /\ UNCHANGED calls
    /\ \E caller \in Address, sample_id \in PaySampleId,
          license_type \in ReLicenseTypeInputs, buyer \in ReBuyerInputs,
          original_creator \in ReCreatorInputs, purchase_price \in PurchasePrices,
          timestamp \in BlockTimes :
            mint_license(caller, sample_id, license_type, buyer,
                         original_creator, purchase_price, timestamp)

ReTransfer ==
    /\ TotalTransfers < ReMaxTransfers
    /\ \E caller \in Address, license_id \in 1..(license_count + 1),
          to \in ReToInputs, sale_price \in SalePrices,
          attached_value \in ReAttachedValues :
            /\ MayCall(caller)
            /\ attached_value <= balance[caller]
            /\ transfer_license_effects(caller, license_id, to, sale_price,
                                        attached_value)

ReWithdraw ==
    \E caller \in Address :
        /\ MayCall(caller)
        /\ withdraw_royalties_payout(caller)

ReTransferRoyalty ==
    /\ InCall
    /\ Top.op = "transfer_license"
    /\ Top.pc = "royalty"
    /\ transfer_license_royalty

ReTransferEvents ==
    /\ InCall
    /\ Top.op = "transfer_license"
    /\ Top.pc = "events"
    /\ transfer_license_events

ReWithdrawEvent ==
    /\ InCall
    /\ Top.op = "withdraw_royalties"
    /\ withdraw_royalties_event

NextReentry ==
    \/ ReSetMarketplace
    \/ ReMint
    \/ ReTransfer
    \/ ReWithdraw
    \/ ReTransferRoyalty
    \/ ReTransferEvents
    \/ ReWithdrawEvent

SpecReentry == Init /\ [][NextReentry]_vars

\* ------------------------------------------------------------------
\* SpecDup: the same entry points on a single sample with two license types,
\* deep enough for three mints around two transfers
\* ------------------------------------------------------------------
DupMintCall ==
    /\ UNCHANGED calls
    /\ license_count < DupMaxLicenses
    /\ \E caller \in Address, sample_id \in DupSampleId,
          license_type \in DupLicenseTypeInputs, buyer \in BuyerInputs,
          original_creator \in CreatorInputs, purchase_price \in PurchasePrices,
          timestamp \in BlockTimes :
            mint_license(caller, sample_id, license_type, buyer,
                         original_creator, purchase_price, timestamp)

DupTransferCall ==
    /\ UNCHANGED calls
    /\ TotalTransfers < DupMaxTransfers
    /\ \E caller \in Address, license_id \in 1..(license_count + 1),
          to \in ToInputs, sale_price \in SalePrices,
          attached_value \in AttachedValues :
            /\ attached_value <= balance[caller]
            /\ transfer_license(caller, license_id, to, sale_price, attached_value)

NextDup ==
    \/ SetMarketplaceCall
    \/ DupMintCall
    \/ DupTransferCall
    \/ WithdrawCall

SpecDup == Init /\ [][NextDup]_vars

\* ==================================================================
\* Properties
\* ==================================================================
LicenseTypes == {"Personal", "Commercial", "Broadcast", "Exclusive"}

SeqSet(q) == {q[i] : i \in DOMAIN q}

\* Ids of the Exclusive licenses ever issued for a sample.
ExclusiveIds(s) ==
    {id \in DOMAIN licenses :
        licenses[id].sample_id = s /\ licenses[id].license_type = "Exclusive"}

\* Ids of the active licenses of one sample and type that an account owns.
OwnedActive(a, s, lt) ==
    {id \in DOMAIN licenses :
        /\ licenses[id].current_owner = a
        /\ licenses[id].is_active
        /\ licenses[id].sample_id = s
        /\ licenses[id].license_type = lt}

OwnedIds(a) == {id \in DOMAIN licenses : licenses[id].current_owner = a}

\* ------------------------------------------------------------------
\* C1
\* ------------------------------------------------------------------
C1_AtMostOneExclusive ==
    \A s \in SampleId : Cardinality(ExclusiveIds(s)) <= 1

C1_NoMintAfterExclusive ==
    \A s \in SampleId :
        ExclusiveIds(s) # {} =>
            /\ sample_license_at'[s] = sample_license_at[s]
            /\ (result'.op = "mint_license" /\ result'.target = s) =>
                 \A c \in {marketplace}, t \in 0..3, b \in BuyerInputs,
                    cr \in CreatorInputs, p \in PurchasePrices, ts \in BlockTimes :
                      mint_license(c, s, t, b, cr, p, ts)
                         => result'.err = "SampleExclusivelyLicensed"

\* C1: every sample has at most one Exclusive license among all licenses ever
\* issued for it, and once it has one, every mint_license call for that sample
\* by the registered marketplace (any of the four license types, any buyer)
\* fails with SampleExclusivelyLicensed and the sample's issuance list never
\* grows again.
C1_ExclusiveForecloses ==
    []C1_AtMostOneExclusive /\ [][C1_NoMintAfterExclusive]_vars

\* A mint for an exclusively licensed sample has just been refused.
C1_Witness ==
    /\ result.op = "mint_license"
    /\ result.err = "SampleExclusivelyLicensed"
    /\ result.target \in SampleId
    /\ ExclusiveIds(result.target) # {}

\* ------------------------------------------------------------------
\* C2
\* ------------------------------------------------------------------
\* C2: no account is the current_owner of two or more active licenses that
\* share the same (sample_id, license_type).
C2_NoDuplicateHolding ==
    \A a \in Address, s \in SampleId, lt \in LicenseTypes :
        Cardinality(OwnedActive(a, s, lt)) <= 1

\* ------------------------------------------------------------------
\* C3
\* ------------------------------------------------------------------
\* C3: has_license(account, sample_id, license_type) is true if and only if
\* the account is the current_owner of an active license of that sample and
\* type.
C3_GuardMatchesOwnership ==
    \A a \in Address, s \in SampleId, t \in 0..3 :
        has_license(a, s, t) <=> OwnedActive(a, s, from_u8(t)) # {}

\* ------------------------------------------------------------------
\* C4
\* ------------------------------------------------------------------
C4_ExactlyTheOwned ==
    \A a \in Address :
        LET r == get_licenses_by_owner(a) IN
        /\ SeqSet(r) = OwnedIds(a)
        /\ Len(r) = Cardinality(OwnedIds(a))
        /\ 0 \notin SeqSet(r)

\* The licenses minted or transferred by the step.
C4_Moved ==
    {id \in DOMAIN licenses' :
        \/ id \notin DOMAIN licenses
        \/ licenses'[id].transfer_count # licenses[id].transfer_count}

C4_AcquisitionOrder ==
    \/ licenses' = licenses /\ owner_license_at' = owner_license_at
    \/ /\ Cardinality(C4_Moved) <= 1
       /\ \A a \in Address :
           LET kept == SelectSeq(get_licenses_by_owner(a),
                                 LAMBDA id : id \notin C4_Moved)
               got == {id \in C4_Moved : licenses'[id].current_owner = a}
               tail == IF got = {} THEN << >> ELSE <<CHOOSE id \in got : TRUE>>
           IN OwnerScan(licenses', owner_license_at'[a], a, 1) = kept \o tail

\* C4: get_licenses_by_owner(a) returns exactly the ids of the licenses whose
\* current_owner is a, each once, never the tombstone 0, in the order in which
\* a acquired them: every step that touches a license keeps the order of the
\* licenses a still holds and puts the license a acquired last.
C4_OwnerEnumeration ==
    []C4_ExactlyTheOwned /\ [][C4_AcquisitionOrder]_vars

\* An owner got its first license back after acquiring a second one: the
\* enumeration is not sorted by id and the owner's index holds a tombstone.
C4_Witness ==
    \E a \in Address :
        /\ get_licenses_by_owner(a) = <<2, 1>>
        /\ 0 \in SeqSet(owner_license_at[a])

\* ------------------------------------------------------------------
\* C5
\* ------------------------------------------------------------------
AllSalePrices == SalePrices \cup PaySalePrices

AllAttachedValues == AttachedValues \cup PayAttachedValues

AllTypeInputs == LicenseTypeInputs \cup PayLicenseTypeInputs \cup DupLicenseTypeInputs

\* C5: a transfer_license call by the current owner of an existing, active,
\* non-Exclusive license fails with InsufficientRoyaltyPayment exactly when
\* attached_value < sale_price + floor(sale_price*10/100) + floor(sale_price*2/100)
\* and succeeds otherwise, and a success adds exactly floor(sale_price*10/100)
\* to the creator's withdrawable balance (1000: 1119 fails, 1120 succeeds, +100).
C5_PaymentThreshold ==
    [][result'.op = "transfer_license" =>
        \A id \in DOMAIN licenses \cap {result'.target}, caller \in Address,
           to \in Address, p \in AllSalePrices, att \in AllAttachedValues :
            ( /\ licenses[id].current_owner = caller
              /\ transfer_license(caller, id, to, p, att)
              /\ licenses[id].is_active
              /\ licenses[id].license_type # "Exclusive" )
            =>
            LET need == p + ((p * 10) \div 100) + ((p * 2) \div 100)
                creator == licenses[id].original_creator
            IN /\ att < need =>
                    /\ result'.err = "InsufficientRoyaltyPayment"
                    /\ creator_royalty_earnings' = creator_royalty_earnings
               /\ att >= need =>
                    /\ result'.err = "Ok"
                    /\ creator_royalty_earnings'[creator] =
                          creator_royalty_earnings[creator] + ((p * 10) \div 100)
    ]_vars

\* The first transfer, at sale price 1000 with exactly 1120 attached, succeeded:
\* the creator can withdraw 100 and the contract holds those 100.
C5_Witness ==
    /\ result.op = "transfer_license"
    /\ result.err = "Ok"
    /\ result.paid[1].amount = 1000
    /\ \E id \in DOMAIN licenses :
          /\ licenses[id].transfer_count = 1
          /\ creator_royalty_earnings[licenses[id].original_creator] = 100
    /\ balance[Self] = 100

\* ------------------------------------------------------------------
\* C6
\* ------------------------------------------------------------------
\* C6: every successful transfer_license pays exactly sale_price to the
\* previous owner and exactly floor(sale_price*2/100) to the admin, and adds
\* exactly floor(sale_price*10/100) to the creator's withdrawable balance: the
\* three parts add up to the required total, every purse changes by exactly
\* its part, and the contract keeps the attached value less the two payouts.
C6_ExactSplit ==
    [][result'.op = "transfer_license" /\ result'.err = "Ok" =>
        \A id \in DOMAIN licenses \cap {result'.target}, caller \in Address,
           to \in Address, p \in AllSalePrices, att \in AllAttachedValues :
            transfer_license(caller, id, to, p, att) =>
            LET royalty == (p * 10) \div 100
                fee == (p * 2) \div 100
                previous == licenses[id].current_owner
                creator == licenses[id].original_creator
                expected ==
                    [x \in Address \cup {Self} |->
                        balance[x]
                        - (IF x = caller THEN att ELSE 0)
                        + (IF x = previous THEN p ELSE 0)
                        + (IF x = admin THEN fee ELSE 0)
                        + (IF x = Self THEN att - p - fee ELSE 0)]
            IN /\ result'.paid = <<[to |-> previous, amount |-> p],
                                   [to |-> admin, amount |-> fee]>>
               /\ creator_royalty_earnings'[creator] =
                     creator_royalty_earnings[creator] + royalty
               /\ balance' = expected
               /\ p + royalty + fee = total_required(p)
               /\ att >= p + royalty + fee
    ]_vars

\* A transfer at sale price 55 succeeded: 5 to the creator and 1 to the admin,
\* both rounded down.
C6_Witness ==
    /\ result.op = "transfer_license"
    /\ result.err = "Ok"
    /\ result.paid[1].amount = 55
    /\ result.paid[2].amount = 1
    /\ \E a \in Address : creator_royalty_earnings[a] = 5

\* ------------------------------------------------------------------
\* C7
\* ------------------------------------------------------------------
\* C7: a mint_license, transfer_license, withdraw_royalties or set_marketplace
\* call that ends in an error leaves every part of the ledger state, the
\* token balances included, as it was before the call and emits no event.
C7_ErrorsChangeNothing ==
    [][result'.err # "Ok" => (ledger' = ledger /\ events' = << >>)]_vars

\* A duplicate mint was refused in a state that holds a license.
C7_Witness ==
    /\ result.op = "mint_license"
    /\ result.err = "AlreadyHasLicenseType"
    /\ license_count > 0

\* ------------------------------------------------------------------
\* C8
\* ------------------------------------------------------------------
C8_CallerMustBeMarketplace ==
    /\ result'.op = "mint_license" =>
        \A s \in SampleId \cap {result'.target}, c \in Address,
           t \in AllTypeInputs, b \in BuyerInputs, cr \in CreatorInputs,
           p \in PurchasePrices, ts \in BlockTimes :
            mint_license(c, s, t, b, cr, p, ts) =>
               /\ marketplace = None => result'.err = "LicenseContractNotSet"
               /\ (marketplace # None /\ c # marketplace)
                     => result'.err = "Unauthorized"
               /\ result'.err = "Ok" => c = marketplace
    /\ marketplace' # marketplace =>
          (result'.op = "set_marketplace" /\ result'.err = "Ok")

C8_NoLicenseBeforeWiring ==
    marketplace = None => (license_count = 0 /\ licenses = << >>)

\* C8: mint_license succeeds only for the registered marketplace: with none
\* registered every caller gets LicenseContractNotSet, with one registered
\* every other caller (the admin too) gets Unauthorized, and the marketplace
\* is registered only by a successful set_marketplace, before which no
\* license exists.
C8_MintAuthorization ==
    []C8_NoLicenseBeforeWiring /\ [][C8_CallerMustBeMarketplace]_vars

\* With a marketplace registered, a mint by another caller was refused.
C8_Witness ==
    /\ result.op = "mint_license"
    /\ result.err = "Unauthorized"
    /\ marketplace # None
    /\ admin # marketplace

\* ------------------------------------------------------------------
\* C9
\* ------------------------------------------------------------------
\* The first failing precondition of a mint, in the order of the claim.
C9_FirstFailure(c, s, t, b) ==
    IF marketplace = None THEN "LicenseContractNotSet"
    ELSE IF c # marketplace THEN "Unauthorized"
    ELSE IF t > 3 THEN "InvalidLicenseType"
    ELSE IF ExclusiveIds(s) # {} THEN "SampleExclusivelyLicensed"
    ELSE IF has_license(b, s, t) THEN "AlreadyHasLicenseType"
    ELSE "Ok"

\* C9: mint_license reports the first failing precondition in the order
\* caller authorization, known license type, sample not exclusively licensed,
\* buyer without a license of that type: an unauthorized caller with an
\* unknown type gets Unauthorized, an unknown type on an exclusively licensed
\* sample gets InvalidLicenseType, and the Exclusive holder asking for
\* Exclusive again gets SampleExclusivelyLicensed.
C9_CheckOrder ==
    [][result'.op = "mint_license" =>
        \A s \in SampleId \cap {result'.target}, c \in Address,
           t \in AllTypeInputs, b \in BuyerInputs, cr \in CreatorInputs,
           p \in PurchasePrices, ts \in BlockTimes :
            mint_license(c, s, t, b, cr, p, ts) =>
                result'.err = C9_FirstFailure(c, s, t, b)
    ]_vars

\* A mint with an unknown license type for an exclusively licensed sample was
\* refused as InvalidLicenseType.
C9_Witness ==
    /\ result.op = "mint_license"
    /\ result.err = "InvalidLicenseType"
    /\ result.target \in SampleId
    /\ ExclusiveIds(result.target) # {}

\* ------------------------------------------------------------------
\* C10
\* ------------------------------------------------------------------
\* A license of sample s and type t that was minted to b and never transferred.
C10_MintedAndKept(b, s, t) ==
    {id \in DOMAIN licenses :
        /\ licenses[id].sample_id = s
        /\ licenses[id].license_type = from_u8(t)
        /\ licenses[id].current_owner = b
        /\ licenses[id].transfer_count = 0}

\* C10: once a mint for (b, s, t) has succeeded and b has not transferred that
\* license away, a second mint for (b, s, t) by the marketplace on a
\* non-exclusive sample fails with AlreadyHasLicenseType and changes nothing,
\* while a mint for (b, s, t') of another non-Exclusive type that b does not
\* hold succeeds and returns a new license id.
C10_DuplicateMintRefused ==
    [][result'.op = "mint_license" =>
        \A s \in SampleId \cap {result'.target}, c \in {marketplace},
           t \in 0..3, b \in BuyerInputs, cr \in CreatorInputs,
           p \in PurchasePrices, ts \in BlockTimes :
            ( /\ ExclusiveIds(s) = {}
              /\ mint_license(c, s, t, b, cr, p, ts) )
            =>
            /\ C10_MintedAndKept(b, s, t) # {} =>
                  /\ result'.err = "AlreadyHasLicenseType"
                  /\ ledger' = ledger
            /\ ( /\ t # 3
                 /\ OwnedActive(b, s, from_u8(t)) = {}
                 /\ \E t0 \in (0..3) \ {t} : C10_MintedAndKept(b, s, t0) # {} )
               => /\ result'.err = "Ok"
                  /\ result'.ret \notin DOMAIN licenses
                  /\ result'.ret \in DOMAIN licenses'
    ]_vars

\* ------------------------------------------------------------------
\* C11
\* ------------------------------------------------------------------
\* The first failing precondition of a transfer, in the order of the claim.
C11_FirstFailure(c, id, p, att) ==
    IF ~(1 <= id /\ id <= license_count) THEN "LicenseNotFound"
    ELSE IF licenses[id].current_owner # c THEN "NotLicenseOwner"
    ELSE IF ~licenses[id].is_active THEN "LicenseInactive"
    ELSE IF licenses[id].license_type = "Exclusive"
         THEN "CannotTransferExclusiveLicense"
    ELSE IF att < p + ((p * 10) \div 100) + ((p * 2) \div 100)
         THEN "InsufficientRoyaltyPayment"
    ELSE "Ok"

\* C11: transfer_license reports the first failing precondition in the order
\* existence, ownership, active flag, non-Exclusive, payment: an unknown id
\* gives LicenseNotFound for any caller, a caller who is not the owner gets
\* NotLicenseOwner even for an Exclusive license or a short payment, the owner
\* of an Exclusive license gets CannotTransferExclusiveLicense even with a
\* short payment, and only otherwise InsufficientRoyaltyPayment is returned.
C11_TransferCheckOrder ==
    [][result'.op = "transfer_license" =>
        \A id \in {result'.target}, c \in Address, to \in PayToInputs,
           p \in PaySalePrices, att \in PayAttachedValues :
            transfer_license(c, id, to, p, att) =>
                result'.err = C11_FirstFailure(c, id, p, att)
    ]_vars

\* The owner of an Exclusive license tried to transfer it and was refused.
C11_Witness ==
    /\ result.op = "transfer_license"
    /\ result.err = "CannotTransferExclusiveLicense"
    /\ result.target \in DOMAIN licenses
    /\ licenses[result.target].license_type = "Exclusive"
\* ------------------------------------------------------------------
\* C12
\* ------------------------------------------------------------------
C12_ExclusiveAtRest ==
    \A id \in DOMAIN licenses :
        licenses[id].license_type = "Exclusive" =>
            /\ licenses[id].transfer_count = 0
            /\ is_exclusively_licensed(licenses[id].sample_id)
            /\ get_exclusive_holder(licenses[id].sample_id) = licenses[id].current_owner

C12_ExclusiveNeverMoves ==
    /\ \A id \in DOMAIN licenses :
          licenses[id].license_type = "Exclusive" =>
              /\ id \in DOMAIN licenses'
              /\ licenses'[id] = licenses[id]
              /\ (result'.op = "transfer_license" /\ result'.target = id)
                    => result'.err # "Ok"
    /\ (result'.op = "mint_license" /\ result'.err = "Ok") =>
          \A s \in SampleId \cap {result'.target}, c \in {marketplace},
             b \in BuyerInputs, cr \in CreatorInputs, p \in PurchasePrices,
             ts \in BlockTimes :
              mint_license(c, s, 3, b, cr, p, ts) =>
                  /\ licenses'[result'.ret].current_owner = b
                  /\ sample_has_exclusive'[s]
                  /\ sample_exclusive_holder'[s] = b

\* C12: no transfer_license call on an Exclusive license succeeds, so every
\* Exclusive license keeps transfer_count 0 and the current_owner it was minted
\* to, and get_exclusive_holder of its sample returns exactly that buyer from
\* the mint on.
C12_ExclusiveNotResold ==
    []C12_ExclusiveAtRest /\ [][C12_ExclusiveNeverMoves]_vars

\* Sample 9 is exclusively licensed to a2, another license has been resold,
\* and a2's attempt to transfer the Exclusive license was refused.
C12_Witness ==
    /\ is_exclusively_licensed(9)
    /\ get_exclusive_holder(9) = "a2"
    /\ TotalTransfers > 0
    /\ result.op = "transfer_license"
    /\ result.err = "CannotTransferExclusiveLicense"
\* ------------------------------------------------------------------
\* C13
\* ------------------------------------------------------------------
C13_FlagHolderLicense ==
    \A s \in SampleId :
        /\ is_exclusively_licensed(s) <=> get_exclusive_holder(s) # None
        /\ is_exclusively_licensed(s) <=> ExclusiveIds(s) # {}
        /\ get_exclusive_holder(s) \in Address \cup {None}

C13_FlagHolderFrozen ==
    \A s \in SampleId :
        is_exclusively_licensed(s) =>
            /\ sample_has_exclusive'[s]
            /\ sample_exclusive_holder'[s] = sample_exclusive_holder[s]
            /\ sample_exclusive_holder'[s] = get_exclusive_holder(s)

\* C13: for every sample, is_exclusively_licensed is true iff
\* get_exclusive_holder returns an account iff an Exclusive license of the
\* sample exists in the ledger, so the flag is never seen without a holder nor
\* a holder without the flag, and once the flag is true neither the flag nor
\* the holder changes.
C13_ExclusiveFlagAndHolder ==
    []C13_FlagHolderLicense /\ [][C13_FlagHolderFrozen]_vars

\* One sample is exclusively licensed with a holder, the other is not and a
\* license has just been resold.
C13_Witness ==
    \E s \in SampleId, s2 \in SampleId :
        /\ is_exclusively_licensed(s)
        /\ get_exclusive_holder(s) \in Address
        /\ ~is_exclusively_licensed(s2)
        /\ get_exclusive_holder(s2) = None
        /\ get_sample_license_count(s2) > 0
        /\ result.op = "transfer_license"
        /\ result.err = "Ok"
\* ------------------------------------------------------------------
\* C14
\* ------------------------------------------------------------------
\* How many times an id occurs in a list.
C14_Occurrences(q, id) == Cardinality({i \in DOMAIN q : q[i] = id})

\* The latest call was a successful transfer of license id from a to b.
C14_JustTransferred(ev, res, id, a, b) ==
    /\ res.op = "transfer_license"
    /\ res.err = "Ok"
    /\ res.target = id
    /\ ev # << >>
    /\ ev[1].kind = "LicenseTransferred"
    /\ ev[1].license_id = id
    /\ ev[1].from = a
    /\ ev[1].to = b

\* C14: transferring a never-transferred non-Exclusive license from A to B and
\* then from B back to A leaves current_owner = A and transfer_count = 2;
\* get_licenses_by_owner(A) then contains the license exactly once and
\* get_licenses_by_owner(B) does not contain it, has_license is true for A and
\* false for B, and A's index is its old slots, none of which holds the
\* license and one of which is the tombstone 0, plus one appended slot that
\* holds the license.
C14_RoundTrip ==
    [][\A id \in DOMAIN licenses, A \in Address, B \in Address :
        ( /\ A # B
          /\ licenses[id].transfer_count = 1
          /\ C14_JustTransferred(events, result, id, A, B)
          /\ C14_JustTransferred(events', result', id, B, A) )
        =>
        LET s == licenses[id].sample_id
            t == to_u8(licenses[id].license_type)
        IN /\ licenses[id].license_type # "Exclusive"
           /\ get_owner(id)' = A
           /\ get_license(id)'.transfer_count = 2
           /\ C14_Occurrences(get_licenses_by_owner(A)', id) = 1
           /\ C14_Occurrences(get_licenses_by_owner(B)', id) = 0
           /\ has_license(A, s, t)'
           /\ ~has_license(B, s, t)'
           /\ id \notin SeqSet(owner_license_at[A])
           /\ 0 \in SeqSet(owner_license_at[A])
           /\ owner_license_at'[A] = Append(owner_license_at[A], id)
    ]_vars

\* The only license went from a2 to a3 and back: a2 owns it again, its index
\* is the tombstone followed by the license.
C14_Witness ==
    /\ license_count = 1
    /\ C14_JustTransferred(events, result, 1, "a3", "a2")
    /\ licenses[1].transfer_count = 2
    /\ owner_license_at["a2"] = <<0, 1>>
    /\ get_licenses_by_owner("a2") = <<1>>
    /\ get_licenses_by_owner("a3") = << >>
\* ------------------------------------------------------------------
\* C15
\* ------------------------------------------------------------------
C15_TotalCoversWithdrawable ==
    \A c \in Address : get_total_royalties(c) >= get_royalty_earnings(c)

\* What the step paid out to c through a successful withdraw_royalties.
C15_WithdrawnByStep(c) ==
    IF result'.op = "withdraw_royalties" /\ result'.err = "Ok"
       /\ result'.paid[1].to = c
    THEN result'.paid[1].amount
    ELSE 0

C15_Accounting ==
    \A c \in Address :
        /\ get_total_royalties(c)' >= get_total_royalties(c)
        /\ (get_total_royalties(c)' - get_royalty_earnings(c)')
              = (get_total_royalties(c) - get_royalty_earnings(c))
                  + C15_WithdrawnByStep(c)
        /\ C15_WithdrawnByStep(c) > 0 =>
              balance'[c] = balance[c] + C15_WithdrawnByStep(c)

\* C15: for every creator c the lifetime total is at least the withdrawable
\* balance and never decreases, and total minus withdrawable, 0 at the start,
\* grows in every step by exactly what a successful withdraw_royalties paid
\* out to c in that step, so it equals the sum of all amounts withdrawn by c.
C15_RoyaltyAccounting ==
    []C15_TotalCoversWithdrawable /\ [][C15_Accounting]_vars

\* The creator earned two royalties of 100 and withdrew the first in between.
C15_Witness ==
    \E c \in Address :
        /\ get_total_royalties(c) = 200
        /\ get_royalty_earnings(c) = 100
\* ------------------------------------------------------------------
\* C16
\* ------------------------------------------------------------------
\* Positions of the token transfers in a call's effects.
PayPositions(e) == {i \in DOMAIN e : e[i].kind = "pay"}

\* Positions of the writes of a value to a field under an account's key.
SetPositions(e, what, who, value) ==
    {i \in DOMAIN e :
        /\ e[i].kind = "set"
        /\ e[i].what = what
        /\ e[i].who = who
        /\ e[i].value = value}

C16_Withdrawal(c) ==
    LET amount == get_royalty_earnings(c)
        e == result'.effects
    IN /\ amount = 0 =>
            /\ result'.err = "NoRoyaltiesToWithdraw"
            /\ ledger' = ledger
       /\ amount > 0 =>
            /\ result'.err = "Ok"
            /\ get_royalty_earnings(c)' = 0
            /\ Cardinality(PayPositions(e)) = 1
            /\ \A j \in PayPositions(e) :
                  /\ e[j].who = c
                  /\ e[j].value = amount
                  /\ \E i \in SetPositions(e, "creator_royalty_earnings", c, 0) : i < j
            /\ balance'[c] = balance[c] + amount
            /\ balance'[Self] = balance[Self] - amount
            /\ get_total_royalties(c)' = get_total_royalties(c)
            /\ \A a \in Address \ {c} :
                  /\ balance'[a] = balance[a]
                  /\ get_royalty_earnings(a)' = get_royalty_earnings(a)
                  /\ get_total_royalties(a)' = get_total_royalties(a)

\* C16: withdraw_royalties fails with NoRoyaltiesToWithdraw and changes nothing
\* when the caller's withdrawable balance is zero; otherwise it writes that
\* balance to zero before its one token transfer, pays exactly the previous
\* balance to the caller, and leaves the caller's lifetime total and every
\* other account's balances as they were; the caller's balance is then zero,
\* so the same call repeated at once fails with NoRoyaltiesToWithdraw.
C16_WithdrawRoyalties ==
    [][result'.op = "withdraw_royalties" =>
        \A c \in Address : withdraw_royalties(c) => C16_Withdrawal(c)
    ]_vars

\* A creator has withdrawn its royalties, and a withdrawal that found nothing
\* to pay has just been refused.
C16_Witness ==
    /\ result.op = "withdraw_royalties"
    /\ result.err = "NoRoyaltiesToWithdraw"
    /\ \E c \in Address :
          /\ get_total_royalties(c) > 0
          /\ get_royalty_earnings(c) = 0
          /\ balance[c] = InitBalance + get_total_royalties(c)
\* ------------------------------------------------------------------
\* C17
\* ------------------------------------------------------------------
\* The step of the claim's list that an effect belongs to: 1 ownership,
\* 2 owner index, 3 duplicate guard, 4 payment of the sale price (the first
\* token transfer), 5 royalty credit, 6 payment of the fee.
C17_Phase(e, i) ==
    IF e[i].kind = "pay"
    THEN (IF \A j \in PayPositions(e) : i <= j THEN 4 ELSE 6)
    ELSE CASE e[i].what = "licenses" -> 1
           [] e[i].what = "owner_license_at" -> 2
           [] e[i].what \in {"user_has_license_type", "user_sample_license"} -> 3
           [] e[i].what \in {"creator_royalty_earnings", "creator_total_royalties"} -> 5
           [] OTHER -> 0

\* The value of the last write to a field under an account's key.
C17_LastWritten(e, what, who) ==
    LET ws == {i \in DOMAIN e :
                 e[i].kind = "set" /\ e[i].what = what /\ e[i].who = who}
    IN e[CHOOSE i \in ws : \A j \in ws : j <= i].value

C17_Order(id) ==
    LET e == result'.effects
        license == licenses[id]
        prev == license.current_owner
        to == events'[1].to
        p == events'[1].sale_price
        royalty == (p * 10) \div 100
        fee == (p * 2) \div 100
        creator == license.original_creator
        s == license.sample_id
        t == to_u8(license.license_type)
        first_pay == CHOOSE j \in PayPositions(e) : \A k \in PayPositions(e) : j <= k
        last_pay == CHOOSE j \in PayPositions(e) : \A k \in PayPositions(e) : k <= j
        phase == [i \in DOMAIN e |-> C17_Phase(e, i)]
    IN /\ \A i \in 1..(Len(e) - 1) : phase[i] <= phase[i + 1]
       /\ {phase[i] : i \in DOMAIN e} = 1..6
       \* (1) ownership
       /\ \A i \in DOMAIN e : phase[i] = 1 =>
            /\ e[i].value.current_owner = to
            /\ e[i].value.transfer_count = license.transfer_count + 1
            /\ licenses'[id] = e[i].value
       \* (2) tombstone, then append
       /\ \E i \in SetPositions(e, "owner_license_at", prev, 0),
             j \in SetPositions(e, "owner_license_at", to, id) : i < j
       /\ owner_license_at'[to][Len(owner_license_at'[to])] = id
       /\ C14_Occurrences(owner_license_at'[to], id) = 1
       /\ prev # to => C14_Occurrences(owner_license_at'[prev], id) = 0
       \* (3) guard cleared for the previous owner, then set for the new owner
       /\ \E i \in SetPositions(e, "user_has_license_type", prev, FALSE),
             j \in SetPositions(e, "user_has_license_type", to, TRUE) : i < j
       /\ \A a \in {prev, to} :
            /\ user_has_license_type'[<<a, s, t>>]
                  = C17_LastWritten(e, "user_has_license_type", a)
            /\ user_sample_license'[<<a, s, t>>]
                  = C17_LastWritten(e, "user_sample_license", a)
       \* (4) and (6) the two token transfers
       /\ Cardinality(PayPositions(e)) = 2
       /\ e[first_pay].who = prev /\ e[first_pay].value = p
       /\ e[last_pay].who = admin /\ e[last_pay].value = fee
       /\ result'.paid = <<[to |-> prev, amount |-> p], [to |-> admin, amount |-> fee]>>
       \* (5) royalty credit
       /\ C17_LastWritten(e, "creator_royalty_earnings", creator)
             = creator_royalty_earnings[creator] + royalty
       /\ C17_LastWritten(e, "creator_total_royalties", creator)
             = creator_total_royalties[creator] + royalty
       /\ creator_royalty_earnings'[creator]
             = C17_LastWritten(e, "creator_royalty_earnings", creator)
       /\ creator_total_royalties'[creator]
             = C17_LastWritten(e, "creator_total_royalties", creator)
       \* every ownership, index and guard write precedes the first transfer
       /\ \A i \in DOMAIN e : phase[i] \in 1..3 => i < first_pay

\* C17: a successful transfer_license makes its effects in this order:
\* (1) current_owner = to and transfer_count + 1 are stored, (2) the previous
\* owner's slot is tombstoned and the license appended to the new owner's
\* index, (3) the duplicate guard is cleared for the previous owner and set
\* for the new owner, (4) sale_price is paid to the previous owner, (5) the
\* royalty is credited to the creator's withdrawable and lifetime balances,
\* (6) the fee is paid to the admin; every ownership, index and guard write
\* comes before the first token transfer, and the state after the call is
\* what these writes leave when made in that order.
C17_TransferEffectOrder ==
    [][(result'.op = "transfer_license" /\ result'.err = "Ok") =>
        \A id \in DOMAIN licenses \cap {result'.target} : C17_Order(id)
    ]_vars

\* An owner transferred a license to itself: the guard, cleared and then set
\* for the same account, is set, and the index holds the tombstone before the
\* appended slot.
C17_Witness ==
    /\ result.op = "transfer_license"
    /\ result.err = "Ok"
    /\ events[1].from = events[1].to
    /\ \E a \in Address, s \in SampleId :
          /\ a = events[1].to
          /\ has_license(a, s, 0)
          /\ owner_license_at[a] = <<0, result.target>>
\* ------------------------------------------------------------------
\* C18
\* ------------------------------------------------------------------
\* Ids asked of the views: 0, every id issued and a few beyond.
C18_ProbedIds == 0..(license_count + 2)

C18_IdsAreOneToCount ==
    /\ DOMAIN licenses = 1..get_license_count
    /\ \A id \in DOMAIN licenses : licenses[id].license_id = id
    /\ \A id \in C18_ProbedIds :
          IF 1 <= id /\ id <= get_license_count
          THEN /\ get_license(id).license_id = id
               /\ get_owner(id) \in Address
               /\ get_owner(id) = get_license(id).current_owner
          ELSE /\ get_license(id) = None
               /\ get_owner(id) = None

C18_Allocation ==
    IF result'.op = "mint_license" /\ result'.err = "Ok"
    THEN /\ result'.ret = get_license_count + 1
         /\ get_license_count' = get_license_count + 1
         /\ result'.ret \notin DOMAIN licenses
         /\ DOMAIN licenses' = DOMAIN licenses \cup {result'.ret}
    ELSE /\ get_license_count' = get_license_count
         /\ DOMAIN licenses' = DOMAIN licenses

\* C18: license ids are allocated as last_id + 1 starting at 1: every
\* successful mint_license returns get_license_count() + 1, an id no license
\* has, and adds 1 to the count, while a failed mint and every other call
\* leave the count and the set of ids alone, so the k-th successful mint
\* returns k and the count is the number of successful mints; get_license(id)
\* and get_owner(id) return a value iff 1 <= id <= get_license_count().
C18_IdAllocation ==
    []C18_IdsAreOneToCount /\ [][C18_Allocation]_vars

\* The second successful mint returned 2; ids 1 and 2 resolve, 0 and 3 do not.
C18_Witness ==
    /\ result.op = "mint_license"
    /\ result.err = "Ok"
    /\ result.ret = 2
    /\ get_license_count = 2
    /\ get_owner(1) \in Address
    /\ get_owner(2) \in Address
    /\ get_owner(0) = None
    /\ get_owner(3) = None
\* ------------------------------------------------------------------
\* C19
\* ------------------------------------------------------------------
\* The recipient of the successful transfer_license that the step made, as
\* its LicenseTransferred event names it.
C19_Recipient == events'[1].to

C19_RecordFrame ==
    /\ \A id \in DOMAIN licenses :
          /\ id \in DOMAIN licenses'
          /\ licenses'[id].license_id = licenses[id].license_id
          /\ licenses'[id].sample_id = licenses[id].sample_id
          /\ licenses'[id].license_type = licenses[id].license_type
          /\ licenses'[id].original_creator = licenses[id].original_creator
          /\ licenses'[id].purchase_price = licenses[id].purchase_price
          /\ licenses'[id].purchase_timestamp = licenses[id].purchase_timestamp
          /\ IF result'.op = "transfer_license" /\ result'.err = "Ok"
                /\ result'.target = id
             THEN /\ events'[1].kind = "LicenseTransferred"
                  /\ events'[1].license_id = id
                  /\ licenses'[id].current_owner = C19_Recipient
                  /\ licenses'[id].transfer_count = licenses[id].transfer_count + 1
                  /\ licenses'[id].is_active = licenses[id].is_active
             ELSE licenses'[id] = licenses[id]
    /\ \A id \in DOMAIN licenses' \ DOMAIN licenses :
          /\ result'.op = "mint_license"
          /\ result'.err = "Ok"
          /\ licenses'[id].transfer_count = 0

\* C19: a minted license record is never deleted and its license_id,
\* sample_id, license_type, original_creator, purchase_price and
\* purchase_timestamp never change; the record changes only in a successful
\* transfer_license of that license, which sets current_owner to the
\* recipient and adds exactly 1 to transfer_count; a record starts with
\* transfer_count 0, so transfer_count is the number of successful transfers
\* of the license.
C19_LicenseRecordFrame ==
    [][C19_RecordFrame]_vars

\* License 1 has been transferred twice and keeps its mint data next to
\* license 2, which never moved.
C19_Witness ==
    /\ license_count = 2
    /\ licenses[1].transfer_count = 2
    /\ licenses[1].license_id = 1
    /\ licenses[1].purchase_price \in PurchasePrices
    /\ licenses[1].purchase_timestamp \in BlockTimes
    /\ licenses[2].transfer_count = 0
    /\ licenses[2].current_owner \in BuyerInputs
\* ------------------------------------------------------------------
\* C20
\* ------------------------------------------------------------------
\* Ids of all licenses ever minted for a sample.
C20_MintedFor(s) == {id \in DOMAIN licenses : licenses[id].sample_id = s}

C20_IssuanceHistory ==
    \A s \in SampleId :
        LET r == get_licenses_by_sample(s) IN
        /\ SeqSet(r) = C20_MintedFor(s)
        /\ \A i \in DOMAIN r, j \in DOMAIN r : i < j => r[i] < r[j]
        /\ get_sample_license_count(s) = Len(r)
        /\ get_sample_license_count(s) = Cardinality(C20_MintedFor(s))

C20_AppendOnly ==
    \A s \in SampleId :
        IF result'.op = "mint_license" /\ result'.err = "Ok" /\ result'.target = s
        THEN /\ get_licenses_by_sample(s)'
                  = Append(get_licenses_by_sample(s), result'.ret)
             /\ get_sample_license_count(s)' = get_sample_license_count(s) + 1
             /\ licenses'[result'.ret].sample_id = s
        ELSE /\ get_licenses_by_sample(s)' = get_licenses_by_sample(s)
             /\ get_sample_license_count(s)' = get_sample_license_count(s)

\* C20: the per-sample index is append-only: get_licenses_by_sample(s) is the
\* list, in strictly increasing id order, of every license ever minted for s,
\* and get_sample_license_count(s) is its length; a successful mint for s
\* appends exactly the new id, and every other call (transfer_license,
\* withdraw_royalties, a mint for another sample, a failed call) leaves both
\* unchanged, so licenses that have been transferred stay listed.
C20_SampleIndexAppendOnly ==
    []C20_IssuanceHistory /\ [][C20_AppendOnly]_vars

\* Both licenses of one sample are listed after the first was transferred and
\* the royalty withdrawn.
C20_Witness ==
    \E s \in SampleId :
        /\ get_licenses_by_sample(s) = <<1, 2>>
        /\ licenses[1].transfer_count > 0
        /\ result.op = "withdraw_royalties"
        /\ result.err = "Ok"
\* ------------------------------------------------------------------
\* C21
\* ------------------------------------------------------------------
C21_AdminIsTheInitAdmin == admin \in InitAdmins

C21_OnlyAdminSets ==
    /\ admin' = admin
    /\ result'.op = "set_marketplace" =>
          \A c \in Address, m \in AdminMarketplaceInputs :
              set_marketplace(c, m) =>
                  IF c = admin
                  THEN result'.err = "Ok" /\ marketplace' = m
                  ELSE result'.err = "Unauthorized" /\ marketplace' = marketplace
    /\ marketplace' # marketplace =>
          (result'.op = "set_marketplace" /\ result'.err = "Ok")

\* C21: set_marketplace changes the registered marketplace only when the
\* caller is the admin given to init; every other caller gets Unauthorized
\* and the marketplace address stays as it was; no call of the ledger changes
\* the admin address.
C21_AdminOnlySetsMarketplace ==
    []C21_AdminIsTheInitAdmin /\ [][C21_OnlyAdminSets]_vars

\* With a marketplace registered, a set_marketplace call by another account
\* was refused and the registration stands.
C21_Witness ==
    /\ result.op = "set_marketplace"
    /\ result.err = "Unauthorized"
    /\ marketplace \in AdminMarketplaceInputs
    /\ admin \in InitAdmins

\* ------------------------------------------------------------------
\* C22
\* ------------------------------------------------------------------
\* C22: once a set_marketplace call has succeeded, no later call changes the
\* registered marketplace address.
C22_MarketplaceSetOnce ==
    [][marketplace # None => marketplace' = marketplace]_vars
\* ------------------------------------------------------------------
\* C23
\* ------------------------------------------------------------------
\* The royalty, fee and required total of a sale price as unbounded integers.
C23_Royalty(p) == (p * CREATOR_ROYALTY_PERCENT) \div 100
C23_Fee(p) == (p * RESALE_PLATFORM_FEE_PERCENT) \div 100
C23_Total(p) == p + C23_Royalty(p) + C23_Fee(p)

\* Some product or sum of the transfer would leave the range of U512.
C23_OutOfRange(id, p) ==
    LET creator == licenses[id].original_creator IN
    \/ p * CREATOR_ROYALTY_PERCENT > U512Max
    \/ p * RESALE_PLATFORM_FEE_PERCENT > U512Max
    \/ C23_Total(p) > U512Max
    \/ creator_royalty_earnings[creator] + C23_Royalty(p) > U512Max
    \/ creator_total_royalties[creator] + C23_Royalty(p) > U512Max

C23_InRange ==
    \A c \in Address :
        /\ creator_royalty_earnings[c] \in 0..U512Max
        /\ creator_total_royalties[c] \in 0..U512Max

C23_OverflowAborts ==
    result'.op = "transfer_license" =>
        \A c \in Address, to \in ToInputs, p \in WideSalePrices,
           att \in WideAttachedValues :
            (/\ att <= balance[c]
             /\ transfer_license(c, result'.target, to, p, att)
             /\ result'.target \in DOMAIN licenses
             /\ licenses[result'.target].current_owner = c
             /\ licenses[result'.target].license_type # "Exclusive") =>
                LET id == result'.target
                    creator == licenses[id].original_creator
                IN IF C23_OutOfRange(id, p)
                   THEN /\ result'.err = "ArithmeticOverflow"
                        /\ ledger' = ledger
                        /\ events' = << >>
                   ELSE /\ result'.err \in {"Ok", "InsufficientRoyaltyPayment"}
                        /\ total_required(p) = C23_Total(p)
                        /\ result'.err = "Ok" =>
                              /\ creator_royalty_earnings'[creator] =
                                    creator_royalty_earnings[creator] + C23_Royalty(p)
                              /\ creator_total_royalties'[creator] =
                                    creator_total_royalties[creator] + C23_Royalty(p)
                              /\ events'[1].creator_royalty = C23_Royalty(p)
                              /\ events'[1].platform_fee = C23_Fee(p)

\* C23: a transfer whose royalty, fee, required total or royalty credit would
\* exceed the range of U512 aborts and changes nothing; every transfer that
\* succeeds stores the exact sums, never a value reduced modulo the width.
C23_NoWrapAround == []C23_InRange /\ [][C23_OverflowAborts]_vars

C23_Witness ==
    /\ result.op = "transfer_license"
    /\ result.err = "ArithmeticOverflow"
    /\ license_count > 0
\* ------------------------------------------------------------------
\* C24
\* ------------------------------------------------------------------
RECURSIVE C24_SumOver(_, _)
C24_SumOver(f, S) ==
    IF S = {} THEN 0
    ELSE LET c == CHOOSE x \in S : TRUE IN f[c] + C24_SumOver(f, S \ {c})

\* The royalties the contract still owes to creators.
C24_Owed == C24_SumOver(creator_royalty_earnings, Address)

\* C24: the contract's own token balance always covers the withdrawable
\* royalty balances of all creators, and no call ever ends in TransferFailed:
\* neither a withdrawal of a nonzero balance nor the payouts of a transfer
\* that passed its payment check run out of funds.
C24_ContractSolvent ==
    /\ balance[Self] >= C24_Owed
    /\ result.err # "TransferFailed"

C24_Witness ==
    /\ result.op = "withdraw_royalties"
    /\ result.err = "Ok"
    /\ result.paid[1].amount > 0
    /\ balance[Self] = C24_Owed
\* ------------------------------------------------------------------
\* C25
\* ------------------------------------------------------------------
\* The royalty balances of every account other than c keep their values.
C25_OthersKeepBalances(c) ==
    \A o \in Address \ {c} :
        /\ creator_royalty_earnings'[o] = creator_royalty_earnings[o]
        /\ creator_total_royalties'[o] = creator_total_royalties[o]

C25_TransferFrame ==
    (result'.op = "transfer_license" /\ result'.err = "Ok") =>
        LET id == result'.target
            creator == licenses[id].original_creator
            royalty == (events'[1].sale_price * CREATOR_ROYALTY_PERCENT) \div 100
        IN /\ creator_royalty_earnings'[creator] =
                 creator_royalty_earnings[creator] + royalty
           /\ creator_total_royalties'[creator] =
                 creator_total_royalties[creator] + royalty
           /\ C25_OthersKeepBalances(creator)
           /\ license_count' = license_count
           /\ sample_license_at' = sample_license_at
           /\ sample_has_exclusive' = sample_has_exclusive
           /\ sample_exclusive_holder' = sample_exclusive_holder
           /\ DOMAIN licenses' = DOMAIN licenses
           /\ \A j \in DOMAIN licenses \ {id} : licenses'[j] = licenses[j]

C25_MintAndSetFrame ==
    result'.op \in {"mint_license", "set_marketplace"} =>
        /\ creator_royalty_earnings' = creator_royalty_earnings
        /\ creator_total_royalties' = creator_total_royalties

\* C25: a successful transfer_license adds creator_royalty to the withdrawable
\* and lifetime balances of the license's original_creator and to no other
\* account, and changes neither license_count, a sample index, an exclusivity
\* flag or holder, nor any other license; mint_license and set_marketplace
\* change no royalty balance.
C25_RoyaltyFrame == [][C25_TransferFrame /\ C25_MintAndSetFrame]_vars

\* A second transfer credited one creator while another creator's balance
\* stood at a nonzero value.
C25_Witness ==
    /\ result.op = "transfer_license"
    /\ result.err = "Ok"
    /\ license_count = 2
    /\ \E c \in Address, o \in Address :
          /\ c # o
          /\ licenses[result.target].original_creator = c
          /\ creator_royalty_earnings[c] > 0
          /\ creator_royalty_earnings[o] > 0
\* ------------------------------------------------------------------
\* C26
\* ------------------------------------------------------------------
C26_Bounds(p, r, f) ==
    /\ r + f <= (p * 12) \div 100
    /\ (p * 12) \div 100 <= r + f + 1
    /\ 0 <= p * 10 - 100 * r
    /\ p * 10 - 100 * r < 100
    /\ 0 <= p * 2 - 100 * f
    /\ p * 2 - 100 * f < 100
    /\ p * 12 - 100 * (r + f) < 200

C26_TruncationOfStep ==
    (result'.op = "transfer_license" /\ result'.err = "Ok") =>
        LET p == events'[1].sale_price
            r == events'[1].creator_royalty
            f == events'[1].platform_fee
            creator == licenses[result'.target].original_creator
        IN /\ C26_Bounds(p, r, f)
           /\ creator_royalty_earnings'[creator] = creator_royalty_earnings[creator] + r
           /\ result'.paid[2].amount = f

\* C26: for every sale price the royalty and the fee that a transfer computes,
\* each truncated on its own, add up to the truncated 12% or to one unit
\* less; each of the two is less than one unit below its exact percentage and
\* together they are less than two units below the exact 12%.
C26_TruncationBounds == [][C26_TruncationOfStep]_vars

\* A transfer where the two truncations together lose more than one unit.
C26_Witness ==
    /\ result.op = "transfer_license"
    /\ result.err = "Ok"
    /\ events[1].sale_price * 12 -
          100 * (events[1].creator_royalty + events[1].platform_fee) > 100
    /\ events[1].creator_royalty + events[1].platform_fee + 1 =
          (events[1].sale_price * 12) \div 100

\* ------------------------------------------------------------------
\* C27
\* ------------------------------------------------------------------
\* The step moved license id from c to the recipient.
C27_Moved(id, c, to) ==
    LET l == licenses[id] IN
    /\ licenses'[id].current_owner = to
    /\ licenses'[id].transfer_count = l.transfer_count + 1
    /\ id \in SeqSet(owner_license_at'[to])
    /\ (to # c) => id \notin SeqSet(owner_license_at'[c])
    /\ user_has_license_type'[<<to, l.sample_id, to_u8(l.license_type)>>]
    /\ user_sample_license'[<<to, l.sample_id, to_u8(l.license_type)>>] = id
    /\ (to # c) => ~user_has_license_type'[<<c, l.sample_id, to_u8(l.license_type)>>]

\* What the caller attached to a successful transfer, read off the contract's
\* balance: the attached value less the two payouts stayed with the contract.
C27_Attached ==
    balance'[Self] - balance[Self] + result'.paid[1].amount + result'.paid[2].amount

C27_SmallPriceStep ==
    (/\ result'.op = "transfer_license"
     /\ result'.target \in DOMAIN licenses
     /\ licenses[result'.target].license_type # "Exclusive") =>
        LET id == result'.target
            c == licenses[id].current_owner
            creator == licenses[id].original_creator
        IN IF result'.err = "Ok"
           THEN LET p == events'[1].sale_price IN
                /\ C27_Attached \in FeeAttachedValues(p)
                /\ C27_Moved(id, c, events'[1].to)
                /\ p < 10 =>
                      /\ creator_royalty_earnings'[creator] =
                            creator_royalty_earnings[creator]
                      /\ creator_total_royalties'[creator] =
                            creator_total_royalties[creator]
                      /\ events'[1].creator_royalty = 0
                /\ p < 50 =>
                      /\ result'.paid[2].amount = 0
                      /\ events'[1].platform_fee = 0
                /\ (p = 0 /\ C27_Attached = 0) => balance' = balance
           \* every attached value of SpecFee covers the truncated total, so
           \* the one failure left is a caller who does not own the license
           ELSE result'.err = "NotLicenseOwner"

\* C27: sale_price has no lower bound: a transfer at sale price 0 with nothing
\* attached succeeds, moves ownership, index and guard to the recipient and
\* increments transfer_count while crediting and paying nothing; any sale
\* price below 10 credits no royalty, any below 50 pays no fee, and the
\* transfer succeeds with exactly the remaining total attached.
C27_SmallPricesSucceed == [][C27_SmallPriceStep]_vars

C27_Witness ==
    /\ result.op = "transfer_license"
    /\ result.err = "Ok"
    /\ events[1].sale_price = 0
    /\ licenses[result.target].transfer_count = 1
    /\ licenses[result.target].current_owner \in PayToInputs
    /\ \A c \in Address : creator_total_royalties[c] = 0
    /\ \A c \in Address : balance[c] = InitBalance
\* ------------------------------------------------------------------
\* C28
\* ------------------------------------------------------------------
\* C28: every license is active in every reachable state, so no call ever
\* ends in LicenseInactive and the licenses an account owns are exactly the
\* active licenses it owns.
C28_AlwaysActive ==
    /\ \A id \in DOMAIN licenses : licenses[id].is_active
    /\ result.err # "LicenseInactive"
    /\ \A a \in Address :
          OwnedIds(a) = UNION {OwnedActive(a, s, lt) : s \in SampleId, lt \in LicenseTypes}

\* A license passed the active check of a second transfer.
C28_Witness ==
    /\ result.op = "transfer_license"
    /\ result.err = "Ok"
    /\ licenses[result.target].transfer_count = 2
    /\ licenses[result.target].is_active
\* ------------------------------------------------------------------
\* C29
\* ------------------------------------------------------------------
\* Ids of the licenses of type lt ever issued for sample s.
C29_Issued(s, lt) ==
    {id \in DOMAIN licenses :
        licenses[id].sample_id = s /\ licenses[id].license_type = lt}

C29_InfoConsistent ==
    \A s \in SampleId :
        LET info == get_sample_license_info(s) IN
        /\ info.total_licenses = get_sample_license_count(s)
        /\ info.total_licenses =
              info.personal_count + info.commercial_count + info.broadcast_count
                + (IF info.has_exclusive THEN 1 ELSE 0)
        /\ info.has_exclusive = is_exclusively_licensed(s)
        /\ info.exclusive_holder = get_exclusive_holder(s)
        /\ info.personal_count = Cardinality(C29_Issued(s, "Personal"))
        /\ info.commercial_count = Cardinality(C29_Issued(s, "Commercial"))
        /\ info.broadcast_count = Cardinality(C29_Issued(s, "Broadcast"))

C29_CountsIssuance ==
    \A s \in SampleId :
        /\ get_sample_license_info(s)'.personal_count >=
              get_sample_license_info(s).personal_count
        /\ get_sample_license_info(s)'.commercial_count >=
              get_sample_license_info(s).commercial_count
        /\ get_sample_license_info(s)'.broadcast_count >=
              get_sample_license_info(s).broadcast_count
        /\ result'.op = "transfer_license" =>
              get_sample_license_info(s)' = get_sample_license_info(s)

\* C29: for every sample the summary of get_sample_license_info has
\* total_licenses equal to get_sample_license_count and to the sum of the
\* three per-type counts plus one when has_exclusive; has_exclusive and
\* exclusive_holder agree with is_exclusively_licensed and
\* get_exclusive_holder; the per-type counts are the numbers of licenses
\* issued, so they never decrease and no transfer changes them.
C29_SampleLicenseInfo == []C29_InfoConsistent /\ [][C29_CountsIssuance]_vars

\* A sample with an Exclusive and a transferred license of another type.
C29_Witness ==
    /\ result.op = "transfer_license"
    /\ result.err = "Ok"
    /\ \E s \in SampleId :
          /\ get_sample_license_info(s).has_exclusive
          /\ get_sample_license_info(s).exclusive_holder \in Address
          /\ get_sample_license_info(s).total_licenses = 2
          /\ licenses[result.target].sample_id = s
\* ------------------------------------------------------------------
\* C30
\* ------------------------------------------------------------------
\* The premise: the ledger's marketplace, once set, is the catalog, and the
\* catalog's license contract, once set, is the ledger.
C30_Registered ==
    /\ marketplace \in {None, Catalog}
    /\ catalog.license_nft_contract \in {None, Self}

C30_ExclusiveIsInactive ==
    \A s \in CatalogSampleId :
        is_exclusively_licensed(s) =>
            /\ s \in DOMAIN catalog.samples
            /\ ~catalog.samples[s].is_active

C30_PurchasesFail ==
    /\ \A s \in CatalogSampleId :
          (~sample_has_exclusive[s] /\ sample_has_exclusive'[s]) =>
              /\ catalog.samples[s].is_active
              /\ ~catalog'.samples[s].is_active
              /\ result'.op = "mint_license"
              /\ result'.err = "Ok"
              /\ result'.target = s
    /\ (/\ result'.op \in {"purchase_sample", "purchase_sample_license"}
        /\ result'.target \in CatalogSampleId
        /\ sample_has_exclusive[result'.target]) =>
            /\ result'.err = "SampleInactive"
            /\ UNCHANGED <<ledger, catalog>>
    /\ (result'.op = "mint_license" /\ result'.err = "Ok") =>
            ~sample_has_exclusive[result'.target]

\* C30: with the catalog registered as the ledger's marketplace, so that every
\* license is minted by purchase_sample_license, every sample that is
\* exclusively licensed in the ledger is inactive in the catalog: the purchase
\* that mints the Exclusive license deactivates the sample in the same call,
\* and every later purchase_sample and purchase_sample_license for the sample
\* fails with SampleInactive.
C30_ExclusiveSampleOffMarket ==
    /\ [](C30_Registered /\ C30_ExclusiveIsInactive)
    /\ [][C30_PurchasesFail]_vars

\* A purchase of an exclusively licensed sample was refused.
C30_Witness ==
    /\ result.op \in {"purchase_sample", "purchase_sample_license"}
    /\ result.err = "SampleInactive"
    /\ result.target \in DOMAIN catalog.samples
    /\ is_exclusively_licensed(result.target)
    /\ get_exclusive_holder(result.target) \in CatBuyerInputs
\* ------------------------------------------------------------------
\* C31
\* ------------------------------------------------------------------
C31_MintFailureStep ==
    result'.op = "purchase_sample_license" =>
        /\ result'.err # "Ok"
        /\ UNCHANGED <<ledger, catalog>>
        /\ events' = << >>
        /\ \A caller \in PurBuyerInputs, lt \in PurLicenseTypeInputs,
              att \in PurAttachedValues, ts \in BlockTimes :
              (/\ att <= balance[caller]
               /\ purchase_sample_license(caller, result'.target, lt, att, ts)
               /\ PurchaseLicenseError(caller, result'.target, lt, att) = "Ok") =>
                  /\ MintError(Catalog, result'.target, lt, caller) # "Ok"
                  /\ result'.err = MintError(Catalog, result'.target, lt, caller)
                  /\ marketplace = None => result'.err = "LicenseContractNotSet"
                  /\ marketplace \notin {None, Catalog} => result'.err = "Unauthorized"
                  /\ (marketplace = Catalog /\ user_has_license_type[<<caller, result'.target, lt>>])
                        => result'.err = "AlreadyHasLicenseType"

\* C31: when the mint_license call that purchase_sample_license delegates to
\* fails, the purchase ends with the mint's error and neither the catalog's
\* storage nor the ledger's storage nor any purse has changed: the catalog's
\* earlier writes and its fee transfer are undone.
C31_FailedMintUndoesPurchase == [][C31_MintFailureStep]_vars

\* A second purchase of the same license type passed the catalog's checks
\* and was refused by the ledger, after a purchase that went through.
C31_Witness ==
    /\ result.op = "purchase_sample_license"
    /\ result.err = "AlreadyHasLicenseType"
    /\ catalog.total_volume > 0
    /\ license_count = 1
    /\ catalog.samples[result.target].total_sales = 1
\* ------------------------------------------------------------------
\* C32
\* ------------------------------------------------------------------
\* The multiplier of a license type on a sample: the seller's own if set.
C32_Multiplier(sample_id, lt) ==
    IF sample_id \in DOMAIN catalog.sample_license_pricing
    THEN catalog.sample_license_pricing[sample_id][lt]
    ELSE CASE lt = "Personal" -> 100
           [] lt = "Commercial" -> 250
           [] lt = "Broadcast" -> 500
           [] lt = "Exclusive" -> 2000

C32_Price(sample_id, lt) ==
    (catalog.samples[sample_id].price * C32_Multiplier(sample_id, lt)) \div 100

C32_PurchaseStep ==
    \A caller \in PurBuyerInputs, sample_id \in PurSampleId,
       license_type \in PurLicenseTypeInputs, att \in PurAttachedValues,
       ts \in BlockTimes :
       (/\ att <= balance[caller]
        /\ sample_id \in DOMAIN catalog.samples
        /\ purchase_sample_license(caller, sample_id, license_type, att, ts)) =>
          LET sample == catalog.samples[sample_id]
              lt == from_u8(license_type)
              minted == licenses'[license_count']
          IN
          /\ result'.err = "Ok" =>
                /\ license_count' = license_count + 1
                /\ minted.sample_id = sample_id
                /\ minted.license_type = lt
                /\ minted.current_owner = caller
                /\ minted.original_creator = sample.seller
                /\ minted.original_creator # minted.current_owner
                /\ minted.purchase_price = C32_Price(sample_id, lt)
                /\ att >= C32_Price(sample_id, lt)
          /\ (sample.is_active /\ sample.seller = caller)
                => result'.err = "CannotPurchaseOwnSample"
          /\ (/\ sample.is_active
              /\ sample.seller # caller
              /\ catalog.license_nft_contract # None
              /\ ~sample_has_exclusive[sample_id]
              /\ att < C32_Price(sample_id, lt))
                => /\ result'.err = "InsufficientPayment"
                   /\ UNCHANGED <<ledger, catalog>>

\* C32: a license minted through purchase_sample_license is owned by the
\* purchasing caller, names the sample's seller (who is not the buyer) as
\* original creator and records as purchase price
\* floor(sample.price * multiplier / 100), with the sample's custom multipliers
\* if the seller set them and 100/250/500/2000 otherwise; a purchase that
\* attaches less than that price fails with InsufficientPayment, and a seller
\* buying their own sample fails with CannotPurchaseOwnSample.
C32_MintedLicenseTerms == [][C32_PurchaseStep]_vars

\* A Personal license was just minted at the seller's custom multiplier, and
\* the division by 100 truncated its price.
C32_Witness ==
    /\ result.op = "mint_license"
    /\ result.err = "Ok"
    /\ license_count >= 1
    /\ licenses[license_count].sample_id \in DOMAIN catalog.sample_license_pricing
    /\ licenses[license_count].license_type = "Personal"
    /\ licenses[license_count].purchase_price * 100 <
         catalog.samples[licenses[license_count].sample_id].price *
           catalog.sample_license_pricing[licenses[license_count].sample_id]["Personal"]
\* ------------------------------------------------------------------
\* C35
\* ------------------------------------------------------------------
\* C35: for every account, sample and license type, has_license is true
\* exactly when get_user_license returns a license id, and the id it returns
\* is that of an existing license of that sample and type whose current owner
\* is that account.
C35_GuardPointsAtOwnedLicense ==
    \A key \in DOMAIN user_sample_license :
        LET a == key[1]
            s == key[2]
            t == key[3]
            found == get_user_license(a, s, t)
        IN /\ has_license(a, s, t) <=> (found # << >>)
           /\ found # << >> =>
                 /\ found[1] \in 1..get_license_count
                 /\ get_license(found[1]).sample_id = s
                 /\ to_u8(get_license(found[1]).license_type) = t
                 /\ get_owner(found[1]) = a

\* A license was transferred to an account that already held one of that
\* sample and type, so the previous owner's entry is cleared and the
\* recipient's entry points at the license that just arrived.
C35_Witness ==
    /\ result.op = "transfer_license"
    /\ result.err = "Ok"
    /\ \E a \in Address, id \in 1..license_count :
          /\ id # result.target
          /\ licenses[id].current_owner = a
          /\ licenses[result.target].current_owner = a
          /\ licenses[id].sample_id = licenses[result.target].sample_id
          /\ licenses[id].license_type = licenses[result.target].license_type
          /\ get_user_license(a, licenses[id].sample_id,
                              to_u8(licenses[id].license_type)) = <<result.target>>
\* ------------------------------------------------------------------
\* C36
\* ------------------------------------------------------------------
\* What the ledger contract holds beyond the withdrawable royalties.
C36_Excess == balance[Self] - C24_Owed

C36_TransferStep ==
    \A att \in PayAttachedValues :
        (/\ result'.op = "transfer_license"
         /\ result'.err = "Ok"
         /\ transfer_license(events'[1].from, result'.target, events'[1].to,
                             events'[1].sale_price, att)) =>
            LET p == events'[1].sale_price
                c == events'[1].from
                royalty == (p * 10) \div 100
                fee == (p * 2) \div 100
                creator == licenses[result'.target].original_creator
                attached == [[balance EXCEPT ![c] = @ - att]
                                EXCEPT ![Self] = @ + att]
                sold == [[attached EXCEPT ![Self] = @ - p] EXCEPT ![c] = @ + p]
            IN /\ att >= p + royalty + fee
               /\ result'.paid = <<[to |-> c, amount |-> p],
                                   [to |-> admin, amount |-> fee]>>
               /\ creator_royalty_earnings' =
                     [creator_royalty_earnings EXCEPT ![creator] = @ + royalty]
               /\ balance' = [[sold EXCEPT ![Self] = @ - fee]
                                 EXCEPT ![admin] = @ + fee]
               /\ C36_Excess' = C36_Excess + (att - (p + royalty + fee))

\* C36: a successful transfer_license pays the previous owner exactly
\* sale_price and the admin exactly the platform fee and credits the creator
\* exactly the royalty, whatever was attached; what was attached beyond
\* total_required goes to nobody and stays in the ledger contract, and no
\* later call ever lowers what the contract holds beyond the withdrawable
\* royalties.
C36_ExcessStaysInContract ==
    [][C36_TransferStep /\ C36_Excess' >= C36_Excess]_vars

\* A transfer went through with more attached than required, and the
\* difference sits in the contract on top of the royalties it owes.
C36_Witness ==
    /\ result.op = "transfer_license"
    /\ result.err = "Ok"
    /\ result.paid[1].amount > 0
    /\ C36_Excess > 0
\* ------------------------------------------------------------------
\* C37
\* ------------------------------------------------------------------
\* A successful transfer that attached exactly total_required: the step
\* is that of transfer_license called by the license's owner with
\* sale_price + royalty + fee attached.
C37_ExactTransfer ==
    /\ result'.op = "transfer_license"
    /\ result'.err = "Ok"
    /\ LET p == events'[1].sale_price
       IN transfer_license(events'[1].from, result'.target, events'[1].to, p,
                           p + ((p * 10) \div 100) + ((p * 2) \div 100))

C37_Royalty == (events'[1].sale_price * 10) \div 100

C37_Fee == (events'[1].sale_price * 2) \div 100

C37_RecipientPaysNothing ==
    /\ events'[1].from = licenses[result'.target].current_owner
    /\ result'.paid[1] = [to |-> events'[1].from, amount |-> events'[1].sale_price]
    /\ events'[1].to \notin {events'[1].from, admin}
          => balance'[events'[1].to] = balance[events'[1].to]

\* C37 as stated: in a successful transfer_license that attached exactly
\* total_required the caller's token balance changes by exactly
\* -(creator_royalty + platform_fee), whoever the caller is.
C37_CallerNetsRoyaltyAndFee ==
    [][C37_ExactTransfer =>
         /\ C37_RecipientPaysNothing
         /\ balance'[events'[1].from] =
               balance[events'[1].from] - (C37_Royalty + C37_Fee)]_vars

\* C37, amended: the caller (the current owner) attaches the payment and
\* receives sale_price back as previous owner, so with exactly total_required
\* attached a caller other than the admin ends -(creator_royalty +
\* platform_fee), a caller who is the admin also receives the platform fee
\* and ends -creator_royalty, and a recipient who is neither the caller nor
\* the admin has an unchanged token balance.
C37_CallerNetsRoyaltyAndFeeUnlessAdmin ==
    [][C37_ExactTransfer =>
         /\ C37_RecipientPaysNothing
         /\ events'[1].from # admin =>
               balance'[events'[1].from] =
                 balance[events'[1].from] - (C37_Royalty + C37_Fee)
         /\ events'[1].from = admin =>
               balance'[events'[1].from] =
                 balance[events'[1].from] - C37_Royalty]_vars

\* The admin transferred a license of its own with exactly total_required
\* attached and was paid both the sale price and a nonzero platform fee.
C37_Witness ==
    /\ result.op = "transfer_license"
    /\ result.err = "Ok"
    /\ result.paid[1].to = admin
    /\ result.paid[2].to = admin
    /\ result.paid[2].amount > 0
    /\ balance[Self] = C24_Owed
\* ------------------------------------------------------------------
\* C38
\* ------------------------------------------------------------------
\* How often a license id occurs in a list of ids.
C38_Occurrences(ids, license_id) ==
    Cardinality({i \in DOMAIN ids : ids[i] = license_id})

C38_SelfTransferStep ==
    \A id \in 1..license_count, p \in SalePrices, att \in AttachedValues :
        LET license == licenses[id]
            c == license.current_owner
            key == <<c, license.sample_id, to_u8(license.license_type)>>
            old == owner_license_at[c]
        IN (/\ result'.op = "transfer_license"
            /\ result'.target = id
            /\ license.is_active
            /\ license.license_type # "Exclusive"
            /\ att <= balance[c]
            /\ att >= p + ((p * 10) \div 100) + ((p * 2) \div 100)
            /\ transfer_license(c, id, c, p, att)) =>
               /\ result'.err = "Ok"
               /\ licenses'[id].current_owner = c
               /\ licenses'[id].transfer_count = license.transfer_count + 1
               /\ licenses'[id].is_active
               /\ user_has_license_type'[key]
               /\ user_sample_license'[key] = id
               /\ \E i \in DOMAIN old :
                     /\ old[i] = id
                     /\ owner_license_at'[c] = Append([old EXCEPT ![i] = 0], id)
               /\ C38_Occurrences(owner_license_at'[c], id) = 1
               /\ C38_Occurrences(OwnerScan(licenses', owner_license_at'[c], c, 1),
                                  id) = 1

\* C38: transfer_license by the owner of a non-Exclusive license to
\* themselves, with enough attached, succeeds; the owner stays the owner,
\* transfer_count goes up by one, has_license and get_user_license still
\* report the license for the owner, and the owner's list holds it exactly
\* once, in a new last slot, the old slot being zeroed.
C38_SelfTransferKeepsLedgerConsistent == [][C38_SelfTransferStep]_vars

\* An account just transferred its own license to itself.
C38_Witness ==
    /\ result.op = "transfer_license"
    /\ result.err = "Ok"
    /\ events[1].from = events[1].to
    /\ licenses[result.target].current_owner = events[1].to
    /\ licenses[result.target].transfer_count >= 1
    /\ get_user_license(events[1].to, licenses[result.target].sample_id,
                        to_u8(licenses[result.target].license_type))
         = <<result.target>>
\* ------------------------------------------------------------------
\* C39
\* ------------------------------------------------------------------
\* An Exclusive mint by the marketplace for a sample without an Exclusive
\* license, to a buyer without one, succeeds whatever other licenses the
\* sample has, and leaves every earlier license as it was.
C39_ExclusiveMintStep ==
    \A caller \in Address, buyer \in PayBuyerInputs, creator \in CreatorInputs,
       price \in PurchasePrices, ts \in BlockTimes :
        (/\ result'.op = "mint_license"
         /\ caller = marketplace
         /\ ~sample_has_exclusive[result'.target]
         /\ ~user_has_license_type[<<buyer, result'.target, 3>>]
         /\ mint_license(caller, result'.target, 3, buyer, creator, price, ts)) =>
            /\ result'.err = "Ok"
            /\ sample_has_exclusive'[result'.target]
            /\ licenses'[license_count'].license_type = "Exclusive"
            /\ \A id \in 1..license_count : licenses'[id] = licenses[id]

\* The owner of an active non-Exclusive license of an exclusively licensed
\* sample transfers it, with enough attached, as if the sample were not.
C39_LaterTransferStep ==
    \A id \in 1..license_count, to \in SelfToInputs, p \in SalePrices,
       att \in AttachedValues :
        (/\ result'.op = "transfer_license"
         /\ result'.target = id
         /\ sample_has_exclusive[licenses[id].sample_id]
         /\ licenses[id].is_active
         /\ licenses[id].license_type # "Exclusive"
         /\ att <= balance[licenses[id].current_owner]
         /\ att >= p + ((p * 10) \div 100) + ((p * 2) \div 100)
         /\ transfer_license(licenses[id].current_owner, id, to, p, att)) =>
            /\ result'.err = "Ok"
            /\ licenses'[id].current_owner = to
            /\ licenses'[id].is_active
            /\ sample_has_exclusive' = sample_has_exclusive
            /\ sample_exclusive_holder' = sample_exclusive_holder

\* C39: an Exclusive mint succeeds on a sample that already has
\* non-Exclusive licenses, those licenses stay active with the owners they
\* had, and their owners can still transfer them once the sample is
\* exclusively licensed, also to an account that never held a license of it.
C39_ExclusivityNotRetroactive ==
    [][C39_ExclusiveMintStep /\ C39_LaterTransferStep]_vars

\* A non-Exclusive license minted before the sample's Exclusive license
\* has just been transferred, after the Exclusive mint, to a3, who never
\* bought or received a license before.
C39_Witness ==
    /\ result.op = "transfer_license"
    /\ result.err = "Ok"
    /\ events[1].to = "a3"
    /\ licenses[result.target].transfer_count = 1
    /\ TotalTransfers = 1
    /\ sample_has_exclusive[licenses[result.target].sample_id]
    /\ \E ex \in 1..license_count :
          /\ ex > result.target
          /\ licenses[ex].license_type = "Exclusive"
          /\ licenses[ex].sample_id = licenses[result.target].sample_id
          /\ licenses[ex].is_active
\* ------------------------------------------------------------------
\* C34
\* ------------------------------------------------------------------
\* What an indexer keeps: the owner of every license, the exclusivity flag
\* and holder of every sample, and both royalty balances of every creator.
C34_Ledger ==
    [owner |-> [id \in 1..license_count |-> licenses[id].current_owner],
     has_exclusive |-> sample_has_exclusive,
     holder |-> sample_exclusive_holder,
     earnings |-> creator_royalty_earnings,
     total |-> creator_total_royalties]

\* The indexer's state before any event.
C34_Empty ==
    [owner |-> << >>,
     has_exclusive |-> [s \in DOMAIN sample_has_exclusive |-> FALSE],
     holder |-> [s \in DOMAIN sample_exclusive_holder |-> None],
     earnings |-> [a \in Address |-> 0],
     total |-> [a \in Address |-> 0]]

\* The indexer's state after one more event, using the event's fields only.
C34_Apply(view, e) ==
    CASE e.kind = "LicenseMinted" ->
           [view EXCEPT !.owner = Append(@, e.buyer)]
      [] e.kind = "ExclusiveLicenseActivated" ->
           [view EXCEPT !.has_exclusive[e.sample_id] = TRUE,
                        !.holder[e.sample_id] = e.holder]
      [] e.kind = "LicenseTransferred" ->
           [view EXCEPT !.owner[e.license_id] = e.to]
      [] e.kind = "RoyaltyPaid" ->
           [view EXCEPT !.earnings[e.creator] = @ + e.amount,
                        !.total[e.creator] = @ + e.amount]
      [] e.kind = "RoyaltiesWithdrawn" ->
           [view EXCEPT !.earnings[e.creator] = @ - e.amount]
      [] OTHER -> view

RECURSIVE C34_Replay(_, _, _)
C34_Replay(view, log, i) ==
    IF i > Len(log) THEN view
    ELSE C34_Replay(C34_Apply(view, log[i]), log, i + 1)

\* How many events of a kind a call emitted.
C34_Emitted(log, kind) == Cardinality({i \in DOMAIN log : log[i].kind = kind})

C34_EventsOfStep ==
    /\ result'.err # "Ok" => events' = << >>
    /\ (result'.op = "mint_license" /\ result'.err = "Ok") =>
          /\ C34_Emitted(events', "LicenseMinted") = 1
          /\ C34_Emitted(events', "ExclusiveLicenseActivated") =
                (IF licenses'[license_count'].license_type = "Exclusive"
                 THEN 1 ELSE 0)
          /\ Len(events') = 1 + C34_Emitted(events', "ExclusiveLicenseActivated")
          /\ \A i \in DOMAIN events' :
                events'[i].kind = "LicenseMinted" =>
                    events'[i].license_id = license_count'
    /\ (result'.op = "transfer_license" /\ result'.err = "Ok") =>
          /\ C34_Emitted(events', "LicenseTransferred") = 1
          /\ C34_Emitted(events', "RoyaltyPaid") = 1
          /\ Len(events') = 2
    /\ (result'.op = "withdraw_royalties" /\ result'.err = "Ok") =>
          /\ C34_Emitted(events', "RoyaltiesWithdrawn") = 1
          /\ Len(events') = 1

\* C34: the ledger's owner of every license, exclusivity flag and holder of
\* every sample, and withdrawable and lifetime royalty balance of every
\* creator are those obtained by replaying the emitted events in order: they
\* start as the replay of no event, and every call changes them to the replay
\* of the events it emitted on top of what they were; a successful mint emits
\* LicenseMinted once, plus ExclusiveLicenseActivated iff the type is
\* Exclusive, a successful transfer emits LicenseTransferred and RoyaltyPaid
\* once each, a successful withdrawal emits RoyaltiesWithdrawn once, and a
\* failed call emits nothing.
C34_StateIsReplayOfEvents ==
    /\ C34_Ledger = C34_Empty
    /\ [][/\ C34_EventsOfStep
          /\ C34_Ledger' = C34_Replay(C34_Ledger, events', 1)]_vars

\* An Exclusive mint, a transfer with a nonzero royalty and a withdrawal
\* have all been replayed.
C34_Witness ==
    /\ result.op = "withdraw_royalties"
    /\ result.err = "Ok"
    /\ events[1].kind = "RoyaltiesWithdrawn"
    /\ events[1].amount > 0
    /\ TotalTransfers >= 1
    /\ \E s \in DOMAIN sample_has_exclusive : sample_has_exclusive[s]
\* ------------------------------------------------------------------
\* C33
\* ------------------------------------------------------------------
\* No account has received more from withdraw_royalties than the royalties
\* credited to it.
C33_NoOverWithdrawal ==
    \A a \in Address : calls.withdrawn[a] <= creator_total_royalties[a]

\* The ledger's purse covers the withdrawable balances, also while calls
\* are suspended.
C33_Covered == balance[Self] >= C24_Owed

====
